---- MODULE Spec2Model ----
(***************************************************************************)
(* State-machine model of the binFawzi-store client core:                  *)
(*   - CartService            (core/services/cart.service.ts)              *)
(*   - ProductService         (core/products/services/product.service.ts)  *)
(*   - ProductsPageComponent  (features/products/pages/products-page.ts)   *)
(* Three specifications share one state: SpecCart, SpecCatalog, SpecPage.  *)
(***************************************************************************)
EXTENDS Integers, Sequences, FiniteSets, TLC

\* ------------------------------------------------------------------------
\* Bounds of the model
\* ------------------------------------------------------------------------
MaxPrice == 2
MaxQtyArg == 2
MaxQty == 3
MaxCartLen == 2
MaxStreams == 2
MaxSubscribers == 2
MaxEdits == 2
MaxRetries == 1

\* the ids of the products a caller puts in the cart
ProductIds == {1, 2}
Prices == 1..MaxPrice
QtyArgs == (0 - 1)..MaxQtyArg
CartProducts == [id : ProductIds, price : Prices]

\* localStorage.getItem of an absent key; a present blob b is held as <<b>>
NoBlob == <<>>

\* texts the key can hold that are not the JSON of an array: JSON.parse
\* throws a SyntaxError on the one, parsedCart.map is not a function on the other
UnparseableBlob == [json |-> "invalid", items |-> <<>>]
NotAnArrayBlob == [json |-> "object", items |-> <<>>]

\* the text [{"id":1,"product":{"id":1},"quantity":1,"lineTotal":1}]: the
\* JSON of an array of one item whose product has no price
PricelessBlob == [json |-> "priceless", items |-> <<>>]

\* the number undefined * 1
NaN == "NaN"

VARIABLES
  cartItems,       \* CartService.cartItems signal: sequence of CartItem
  summaryMemo,     \* CartService.summary: the value computed() holds, <<v>>,
                   \* or <<>> once cartItems has changed since it was computed
  cartStorage,     \* localStorage['binfawzi_cart'] (NoBlob when absent)
  storageThrows,   \* localStorage access throws in this browser
  uncaught         \* an exception has left a CartService call uncaught

cartVars == <<cartItems, summaryMemo, cartStorage, storageThrows, uncaught>>

VARIABLES
  productService,  \* the ProductService singleton: its fields, the streams
                   \* it has returned and their subscribers
  cacheCleared     \* clearCache() has been called

catalogVars == <<productService, cacheCleared>>

VARIABLES
  page,            \* the ProductsPageComponent and its products$ subscription
  log              \* what the last step did: the filters it fetched with,
                   \* the lists it emitted, the debounced value it handled

pageVars == <<page, log>>

VARIABLES
  refinement       \* one run of the map() callback of getFilteredProducts:
                   \* the list and filters it is handed, the list it returns

refineVars == <<refinement>>

VARIABLES
  auth,            \* the AuthService, its TokenStorageService, the auth token
                   \* in localStorage and what the AuthInterceptor forwarded
  details,         \* the ProductDetailsComponent and its requests in flight
  notifications    \* the NotificationService: its list and its armed timers

uiVars == <<auth, details, notifications>>
vars == <<cartVars, catalogVars, pageVars, refineVars, uiVars>>

\* ------------------------------------------------------------------------
\* CartService
\* ------------------------------------------------------------------------
RECURSIVE reduceSum(_, _, _)
\* items.reduce((sum, x) => sum + x, acc): left fold from index i on
reduceSum(items, i, acc) ==
  IF i > Len(items) THEN acc
  ELSE reduceSum(items, i + 1, acc + items[i])

lineTotals(items) == [i \in 1..Len(items) |-> items[i].lineTotal]
quantities(items) == [i \in 1..Len(items) |-> items[i].quantity]

\* the function computed() evaluates
summary(items) ==
  LET subtotal == reduceSum(lineTotals(items), 1, 0)
      shipping == 0
      total == subtotal + shipping
      itemCount == reduceSum(quantities(items), 1, 0)
  IN [subtotal |-> subtotal, shipping |-> shipping,
      total |-> total, itemCount |-> itemCount]

\* cartItems.set(v) that fails to notify computed()
cartItemsSet_noNotify(v) ==
  /\ cartItems' = v
  /\ summaryMemo' = summaryMemo

\* cartItems.set(v): the signal notifies its consumers, computed() is stale
cartItemsSet(v) ==
  /\ cartItems' = v
  /\ summaryMemo' = <<>>

\* value a reader of summary() gets: recomputed when stale, memoized otherwise
summaryValue ==
  IF summaryMemo = <<>> THEN summary(cartItems) ELSE summaryMemo[1]

\* Array.prototype.findIndex on item.id; 0 stands for -1 (not found)
findIndex(items, productId) ==
  IF \E i \in 1..Len(items) : items[i].id = productId
  THEN CHOOSE i \in 1..Len(items) :
         /\ items[i].id = productId
         /\ \A j \in 1..(i - 1) : items[j].id # productId
  ELSE 0

\* JSON.stringify of a CartItem[]: the text of an array of
\* [id, [id, price], quantity, lineTotal]
JSONstringify(items) ==
  [json |-> "array",
   items |-> [i \in 1..Len(items) |->
                <<items[i].id, <<items[i].product.id, items[i].product.price>>,
                  items[i].quantity, items[i].lineTotal>>]]

\* JSON.parse of a stored text that is the JSON of an array of items
JSONparse(blob) ==
  [i \in 1..Len(blob.items) |->
     [id |-> blob.items[i][1],
      product |-> [id |-> blob.items[i][2][1], price |-> blob.items[i][2][2]],
      quantity |-> blob.items[i][3],
      lineTotal |-> blob.items[i][4]]]

\* try { setItem } catch { console.error }: a failing write is logged only
saveCartToStorage(items) ==
  /\ cartStorage' = IF storageThrows THEN cartStorage ELSE <<JSONstringify(items)>>
  /\ uncaught' = uncaught

\* the try block of loadCartFromStorage throws: getItem does, JSON.parse
\* does, or parsedCart.map does
loadThrows ==
  \/ storageThrows
  \/ cartStorage # NoBlob /\ cartStorage[1].json \in {"invalid", "object"}

\* parsedCart.map over the items of PricelessBlob: item.product.price is
\* undefined and the product with the quantity is NaN
loadedPriceless ==
  << [id |-> 1, product |-> [id |-> 1], quantity |-> 1, lineTotal |-> NaN] >>

\* loadCartFromStorage that returns the parsed items as they were stored
loadCartFromStorage_trustsStored ==
  IF loadThrows \/ cartStorage = NoBlob
  THEN <<>>
  ELSE IF cartStorage[1].json = "priceless"
  THEN loadedPriceless
  ELSE JSONparse(cartStorage[1])

loadCartFromStorage ==
  IF loadThrows \/ cartStorage = NoBlob
  THEN <<>>
  ELSE IF cartStorage[1].json = "priceless"
  THEN loadedPriceless
  ELSE LET parsedCart == JSONparse(cartStorage[1])
       IN [i \in 1..Len(parsedCart) |->
             [parsedCart[i] EXCEPT
                !.lineTotal = parsedCart[i].product.price * parsedCart[i].quantity]]

\* addToCart without the findIndex lookup: every call appends
addToCartItems_noMerge(currentItems, product, quantity) ==
  Append(currentItems,
         [id |-> product.id, product |-> product,
          quantity |-> quantity, lineTotal |-> product.price * quantity])

\* addToCart that overwrites the quantity of an existing item
addToCartItems_replaceQuantity(currentItems, product, quantity) ==
  LET existingItemIndex == findIndex(currentItems, product.id)
  IN IF existingItemIndex >= 1
     THEN [currentItems EXCEPT ![existingItemIndex] =
             [@ EXCEPT !.quantity = quantity,
                       !.lineTotal = quantity * product.price]]
     ELSE Append(currentItems,
                 [id |-> product.id, product |-> product,
                  quantity |-> quantity, lineTotal |-> product.price * quantity])

addToCartItems(currentItems, product, quantity) ==
  LET existingItemIndex == findIndex(currentItems, product.id)
  IN IF existingItemIndex >= 1
     THEN [currentItems EXCEPT ![existingItemIndex] =
             [@ EXCEPT !.quantity = @ + quantity,
                       !.lineTotal = (currentItems[existingItemIndex].quantity + quantity)
                                       * product.price]]
     ELSE Append(currentItems,
                 [id |-> product.id, product |-> product,
                  quantity |-> quantity, lineTotal |-> product.price * quantity])

addToCart(product, quantity) ==
  LET newItems == addToCartItems(cartItems, product, quantity)
  IN /\ Len(newItems) <= MaxCartLen
     /\ \A i \in 1..Len(newItems) :
          newItems[i].quantity \in (0 - 1)..MaxQty
     /\ cartItemsSet(newItems)
     /\ saveCartToStorage(newItems)
     /\ UNCHANGED <<storageThrows, catalogVars, pageVars, refineVars, uiVars>>

\* the filter of removeFromCart with === for !==
filterOut_keepsOnly(items, productId) ==
  SelectSeq(items, LAMBDA item : item.id = productId)

filterOut(items, productId) ==
  SelectSeq(items, LAMBDA item : item.id # productId)

removeFromCart(productId) ==
  /\ cartItemsSet(filterOut(cartItems, productId))
  /\ saveCartToStorage(filterOut(cartItems, productId))
  /\ UNCHANGED <<storageThrows, catalogVars, pageVars, refineVars, uiVars>>

\* updateQuantity that keeps the lineTotal the item had
updateQuantityItems_staleLineTotal(currentItems, productId, quantity) ==
  [i \in 1..Len(currentItems) |->
     IF currentItems[i].id = productId
     THEN [currentItems[i] EXCEPT !.quantity = quantity]
     ELSE currentItems[i]]

updateQuantityItems(currentItems, productId, quantity) ==
  [i \in 1..Len(currentItems) |->
     IF currentItems[i].id = productId
     THEN [currentItems[i] EXCEPT
             !.quantity = quantity,
             !.lineTotal = currentItems[i].product.price * quantity]
     ELSE currentItems[i]]

updateQuantity(productId, quantity) ==
  IF quantity <= 0
  THEN removeFromCart(productId)
  ELSE /\ cartItemsSet(updateQuantityItems(cartItems, productId, quantity))
       /\ saveCartToStorage(updateQuantityItems(cartItems, productId, quantity))
       /\ UNCHANGED <<storageThrows, catalogVars, pageVars, refineVars, uiVars>>

clearCart ==
  /\ cartItemsSet(<<>>)
  /\ saveCartToStorage(<<>>)
  /\ UNCHANGED <<storageThrows, catalogVars, pageVars, refineVars, uiVars>>

\* this.cartItems().some(item => item.id === productId)
isInCart(productId) ==
  \E i \in 1..Len(cartItems) : cartItems[i].id = productId

\* Array.prototype.find gives the first item with the id, or undefined
getProductQuantity(productId) ==
  LET i == findIndex(cartItems, productId)
  IN IF i >= 1 THEN cartItems[i].quantity ELSE 0

\* a template or component reads summary(): computed() caches the value
readSummary ==
  /\ summaryMemo' = <<summaryValue>>
  /\ UNCHANGED <<cartItems, cartStorage, storageThrows, uncaught,
                 catalogVars, pageVars, refineVars, uiVars>>

\* a page load constructs a new CartService from what localStorage holds
newCartService ==
  /\ cartItems' = loadCartFromStorage
  /\ summaryMemo' = <<>>
  /\ UNCHANGED <<cartStorage, storageThrows, uncaught, catalogVars, pageVars, refineVars, uiVars>>

InitCart ==
  /\ storageThrows \in BOOLEAN
  /\ cartStorage = NoBlob
  /\ cartItems = <<>>
  /\ summaryMemo = <<>>
  /\ uncaught = FALSE

\* items an earlier session left under the key: the lineTotal of the first is
\* the product of its price and quantity, those of the others are not
StoredItems ==
  { <<1, <<1, 1>>, 1, 1>>,
    <<1, <<1, 2>>, 1, 1>>,
    <<2, <<2, 1>>, 2, 4>> }

\* what the key can hold when a CartService is constructed
StoredBlobs ==
  {NoBlob, <<UnparseableBlob>>, <<NotAnArrayBlob>>, <<PricelessBlob>>}
    \cup {<<[json |-> "array", items |-> items]>> :
            items \in UNION {[1..n -> StoredItems] : n \in 0..MaxCartLen}}

\* a storage whose access throws is never read: one blob stands for all
UnreadBlobs == {<<[json |-> "array", items |-> <<<<2, <<2, 1>>, 2, 4>>>>]>>}

\* new CartService() in a browser whose storage an earlier session wrote
InitStorage ==
  /\ storageThrows \in BOOLEAN
  /\ cartStorage \in IF storageThrows THEN UnreadBlobs ELSE StoredBlobs
  /\ cartItems = loadCartFromStorage
  /\ summaryMemo = <<>>
  /\ uncaught = FALSE

NextCart ==
  \/ \E product \in CartProducts, quantity \in QtyArgs : addToCart(product, quantity)
  \/ \E productId \in ProductIds, quantity \in QtyArgs : updateQuantity(productId, quantity)
  \/ \E productId \in ProductIds : removeFromCart(productId)
  \/ clearCart
  \/ readSummary
  \/ newCartService

\* ------------------------------------------------------------------------
\* Values of the catalog
\* ------------------------------------------------------------------------
\* an optional value: <<>> is undefined, <<v>> is v
Undefined == <<>>
Some(v) == <<v>>

\* what the FakeStore API holds; the server may change between two requests
ServerVersions == {1, 2}
ServerCatalog(version) ==
  IF version = 1
  THEN << [id |-> 1, title |-> <<"S", "h">>, description |-> <<"x">>,
           price |-> 5, category |-> "a", rating |-> Some(4)],
          [id |-> 2, title |-> <<"t">>, description |-> <<"s">>,
           price |-> 15, category |-> "b", rating |-> Undefined],
          [id |-> 3, title |-> <<"s">>, description |-> <<"y">>,
           price |-> 25, category |-> "a", rating |-> Some(4)] >>
  ELSE << [id |-> 3, title |-> <<"s">>, description |-> <<"y">>,
           price |-> 5, category |-> "a", rating |-> Some(2)],
          [id |-> 1, title |-> <<"S", "h">>, description |-> <<"x">>,
           price |-> 5, category |-> "a", rating |-> Some(4)] >>

Categories == {"a", "b"}
\* the limit arguments callers pass to getProducts
Limits == {Undefined, Some(0), Some(1)}

\* JavaScript truthiness of an optional number / optional string
truthyNumber(x) == x # Undefined /\ x[1] # 0
truthyString(x) == x # Undefined /\ x[1] # ""

Min(a, b) == IF a < b THEN a ELSE b

\* the body the server sends for a URL
ServerBody(url, version) ==
  LET all == ServerCatalog(version)
  IN CASE url.path = "products" ->
            IF url.limit = Undefined THEN all
            ELSE SubSeq(all, 1, Min(url.limit[1], Len(all)))
       [] url.path = "categories" -> <<"a", "b">>
       [] url.path = "category" ->
            SelectSeq(all, LAMBDA product : product.category = url.category)
       [] OTHER ->
            SelectSeq(all, LAMBDA product : product.id = url.id)

\* HttpErrorResponse values handleError can be handed: error.error is an
\* ErrorEvent (errorEvent), or the request got no HTTP response and the
\* transport reports status 0 with its ProgressEvent, or the server answered
\* with a status and a body whose message is absent, empty or a text
ErrorStatuses == {400, 401, 403, 404, 500, 502, 503}
HttpErrors ==
  { [errorEvent |-> TRUE, status |-> 0, message |-> Some("failed")],
    [errorEvent |-> FALSE, status |-> 0, message |-> Undefined] }
    \cup [errorEvent : {FALSE}, status : ErrorStatuses,
          message : {Undefined, Some(""), Some("busy")}]

\* the failure the transport delivers in the state machines: no connection
TransportErrors == {e \in HttpErrors : ~e.errorEvent /\ e.status = 0}

HttpOutcomes ==
  [ok : {TRUE}, version : ServerVersions] \cup [ok : {FALSE}, error : TransportErrors]

\* ------------------------------------------------------------------------
\* ProductService
\* ------------------------------------------------------------------------
NoStream == 0

\* new ProductService(): no cache, loading IDLE, error null
NewProductService ==
  [ productsCache |-> NoStream,
    categoriesCache |-> NoStream,
    loadingSubject |-> "idle",
    errorSubject |-> Undefined,
    streams |-> <<>>,        \* the shareReplay(1) observables the service built
    cold |-> {},             \* the URLs of the unshared observables it returned
    subscribers |-> <<>>,    \* the subscriptions that wait for a response
    subscriptions |-> 0 ]    \* subscribe() calls made so far

\* setLoading that never reaches loadingSubject
setLoading_ignored(s, state) == s

setLoading(s, state) == [s EXCEPT !.loadingSubject = state]
clearError(s) == [s EXCEPT !.errorSubject = Undefined]

\* an observable the service returns: http.get(url).pipe(tap, catchError) is
\* cold and has no state, every subscription is a request of its own; with
\* shareReplay(1) it is the stream-th element of streams
coldObservable(url) == [stream |-> NoStream, url |-> url]
sharedObservable(s, stream) == [stream |-> stream, url |-> s.streams[stream].url]

\* http.get(url).pipe(tap, catchError, shareReplay(1)): holds one connection
\* to the source and the value it replays; requests and failures count what
\* its source did, delivered lists what its own subscribers were handed
newStream(s, url) ==
  [s EXCEPT !.streams = Append(@,
     [url |-> url, conn |-> "none", buffer |-> Undefined,
      requests |-> 0, failures |-> 0, delivered |-> <<>>])]

productsUrl(limit) ==
  IF truthyNumber(limit)
  THEN [path |-> "products", limit |-> limit]
  ELSE [path |-> "products", limit |-> Undefined]

\* getProducts ignoring the cache: every call builds a new stream
getProducts_noCache(s, limit) ==
  LET s1 == newStream(setLoading(s, "loading"), productsUrl(limit))
      products == Len(s1.streams)
  IN [svc |-> IF ~truthyNumber(limit)
              THEN [s1 EXCEPT !.productsCache = products] ELSE s1,
      ret |-> sharedObservable(s1, products)]

getProducts(s, limit) ==
  IF s.productsCache # NoStream /\ ~truthyNumber(limit)
  THEN [svc |-> s, ret |-> sharedObservable(s, s.productsCache)]
  ELSE LET s1 == newStream(setLoading(s, "loading"), productsUrl(limit))
           products == Len(s1.streams)
       IN [svc |-> IF ~truthyNumber(limit)
                   THEN [s1 EXCEPT !.productsCache = products] ELSE s1,
           ret |-> sharedObservable(s1, products)]

getProductById(s, id) ==
  LET url == [path |-> "product", id |-> id]
  IN [svc |-> [setLoading(s, "loading") EXCEPT !.cold = @ \cup {url}],
      ret |-> coldObservable(url)]

getCategories(s) ==
  IF s.categoriesCache # NoStream
  THEN [svc |-> s, ret |-> sharedObservable(s, s.categoriesCache)]
  ELSE LET s1 == newStream(setLoading(s, "loading"), [path |-> "categories"])
       IN [svc |-> [s1 EXCEPT !.categoriesCache = Len(s1.streams)],
           ret |-> sharedObservable(s1, Len(s1.streams))]

getProductsByCategory(s, category) ==
  LET url == [path |-> "category", category |-> category]
  IN [svc |-> [setLoading(s, "loading") EXCEPT !.cold = @ \cup {url}],
      ret |-> coldObservable(url)]

\* clearCache that forgets productsCache$: only the categories are dropped
clearCacheOf_keepProducts(s) ==
  [s EXCEPT !.categoriesCache = NoStream]

clearCacheOf(s) ==
  [s EXCEPT !.productsCache = NoStream, !.categoriesCache = NoStream]

handleError(error) ==
  IF error.errorEvent
  THEN [message |-> "Network error occurred. Please check your connection.",
        status |-> Undefined, code |-> "NETWORK_ERROR"]
  ELSE CASE error.status = 404 ->
              [message |-> "Product not found.", status |-> Some(404),
               code |-> "NOT_FOUND"]
         [] error.status = 500 ->
              [message |-> "Server error. Please try again later.",
               status |-> Some(500), code |-> "SERVER_ERROR"]
         [] OTHER ->
              [message |-> IF truthyString(error.message) THEN error.message[1]
                           ELSE "An unexpected error occurred.",
               status |-> Some(error.status), code |-> "UNKNOWN_ERROR"]

\* ---- client-side refinement ----
\* String.prototype.toLowerCase, per UTF-16 code unit of the model's alphabet
toLowerCaseChar(c) == IF c = "S" THEN "s" ELSE IF c = "H" THEN "h" ELSE c
toLowerCase(str) == [i \in 1..Len(str) |-> toLowerCaseChar(str[i])]

\* UTF-16 code units, the order < and > compare strings by
charCode(c) ==
  CASE c = " " -> 32 [] c = "H" -> 72 [] c = "S" -> 83 [] c = "h" -> 104
    [] c = "s" -> 115
    [] c = "t" -> 116 [] c = "x" -> 120 [] c = "y" -> 121 [] OTHER -> 0

\* String.prototype.includes
includes(str, search) ==
  \E k \in 0..(Len(str) - Len(search)) :
    \A i \in 1..Len(search) : str[k + i] = search[i]

\* String.prototype.trim: leading and trailing spaces removed
RECURSIVE trim(_)
trim(str) ==
  IF str = <<>> THEN str
  ELSE IF Head(str) = " " THEN trim(Tail(str))
  ELSE IF str[Len(str)] = " " THEN trim(SubSeq(str, 1, Len(str) - 1))
  ELSE str

\* valueA < valueB on strings
RECURSIVE stringLess(_, _)
stringLess(a, b) ==
  IF b = <<>> THEN FALSE
  ELSE IF a = <<>> THEN TRUE
  ELSE IF charCode(Head(a)) # charCode(Head(b))
       THEN charCode(Head(a)) < charCode(Head(b))
       ELSE stringLess(Tail(a), Tail(b))

\* the comparator of sortProducts without toLowerCase() on the titles
compareProducts_caseSensitive(a, b, sortBy, order) ==
  LET rate(p) == IF p.rating # Undefined /\ p.rating[1] # 0 THEN p.rating[1] ELSE 0
      less ==
        CASE sortBy = "price" -> a.price < b.price
          [] sortBy = "title" -> stringLess(a.title, b.title)
          [] sortBy = "rating" -> rate(a) < rate(b)
          [] OTHER -> FALSE
      greater ==
        CASE sortBy = "price" -> a.price > b.price
          [] sortBy = "title" -> stringLess(b.title, a.title)
          [] sortBy = "rating" -> rate(a) > rate(b)
          [] OTHER -> FALSE
  IN IF less THEN (IF order = "asc" THEN 0 - 1 ELSE 1)
     ELSE IF greater THEN (IF order = "asc" THEN 1 ELSE 0 - 1)
     ELSE 0

\* the comparator of sortProducts: negative, zero or positive
compareProducts(a, b, sortBy, order) ==
  LET rate(p) == IF p.rating # Undefined /\ p.rating[1] # 0 THEN p.rating[1] ELSE 0
      less ==
        CASE sortBy = "price" -> a.price < b.price
          [] sortBy = "title" -> stringLess(toLowerCase(a.title), toLowerCase(b.title))
          [] sortBy = "rating" -> rate(a) < rate(b)
          [] OTHER -> FALSE
      greater ==
        CASE sortBy = "price" -> a.price > b.price
          [] sortBy = "title" -> stringLess(toLowerCase(b.title), toLowerCase(a.title))
          [] sortBy = "rating" -> rate(a) > rate(b)
          [] OTHER -> FALSE
  IN IF less THEN (IF order = "asc" THEN 0 - 1 ELSE 1)
     ELSE IF greater THEN (IF order = "asc" THEN 1 ELSE 0 - 1)
     ELSE 0

\* Array.prototype.sort is stable: x goes behind every element not after it
RECURSIVE insertSorted(_, _, _, _)
insertSorted(sorted, x, sortBy, order) ==
  IF sorted = <<>> THEN <<x>>
  ELSE IF compareProducts(sorted[Len(sorted)], x, sortBy, order) <= 0
       THEN Append(sorted, x)
       ELSE Append(insertSorted(SubSeq(sorted, 1, Len(sorted) - 1), x, sortBy, order),
                   sorted[Len(sorted)])

RECURSIVE sortFrom(_, _, _, _, _)
sortFrom(products, i, sorted, sortBy, order) ==
  IF i > Len(products) THEN sorted
  ELSE sortFrom(products, i + 1, insertSorted(sorted, products[i], sortBy, order),
                sortBy, order)

sortProducts(products, sortBy, order) ==
  sortFrom(products, 1, <<>>, sortBy, order)

\* ProductFilters: every field optional
NoFilters ==
  [searchTerm |-> Undefined, category |-> Undefined, minPrice |-> Undefined,
   maxPrice |-> Undefined, limit |-> Undefined, sortBy |-> Undefined,
   sortOrder |-> Undefined]

\* applyClientSideFilters that tests maxPrice by truthiness: a bound of 0 is
\* taken as no bound
applyClientSideFilters_truthyMax(products, filters) ==
  LET searchLower == toLowerCase(filters.searchTerm[1])
      bySearch ==
        IF filters.searchTerm # Undefined /\ filters.searchTerm[1] # <<>>
        THEN SelectSeq(products, LAMBDA product :
               \/ includes(toLowerCase(product.title), searchLower)
               \/ includes(toLowerCase(product.description), searchLower))
        ELSE products
      byMin ==
        IF filters.minPrice # Undefined
        THEN SelectSeq(bySearch, LAMBDA product : product.price >= filters.minPrice[1])
        ELSE bySearch
      byMax ==
        IF truthyNumber(filters.maxPrice)
        THEN SelectSeq(byMin, LAMBDA product : product.price <= filters.maxPrice[1])
        ELSE byMin
  IN IF truthyString(filters.sortBy)
     THEN sortProducts(byMax, filters.sortBy[1],
                       IF truthyString(filters.sortOrder)
                       THEN filters.sortOrder[1] ELSE "asc")
     ELSE byMax

applyClientSideFilters(products, filters) ==
  LET searchLower == toLowerCase(filters.searchTerm[1])
      bySearch ==
        IF filters.searchTerm # Undefined /\ filters.searchTerm[1] # <<>>
        THEN SelectSeq(products, LAMBDA product :
               \/ includes(toLowerCase(product.title), searchLower)
               \/ includes(toLowerCase(product.description), searchLower))
        ELSE products
      byMin ==
        IF filters.minPrice # Undefined
        THEN SelectSeq(bySearch, LAMBDA product : product.price >= filters.minPrice[1])
        ELSE bySearch
      byMax ==
        IF filters.maxPrice # Undefined
        THEN SelectSeq(byMin, LAMBDA product : product.price <= filters.maxPrice[1])
        ELSE byMin
  IN IF truthyString(filters.sortBy)
     THEN sortProducts(byMax, filters.sortBy[1],
                       IF truthyString(filters.sortOrder)
                       THEN filters.sortOrder[1] ELSE "asc")
     ELSE byMax

\* the rest of the destructuring { category, limit, ...clientFilters }
clientFiltersOf(filters) ==
  [filters EXCEPT !.category = Undefined, !.limit = Undefined]

\* getFilteredProducts that tests limit before category
getFilteredProducts_limitFirst(s, filters) ==
  LET source ==
        IF truthyNumber(filters.limit)
        THEN getProducts(s, filters.limit)
        ELSE IF truthyString(filters.category)
             THEN getProductsByCategory(s, filters.category[1])
             ELSE getProducts(s, Undefined)
  IN [svc |-> source.svc, ret |-> source.ret,
      map |-> Some(clientFiltersOf(filters))]

\* getFilteredProducts: the source stream and the filters its map() applies
getFilteredProducts(s, filters) ==
  LET source ==
        IF truthyString(filters.category)
        THEN getProductsByCategory(s, filters.category[1])
        ELSE IF truthyNumber(filters.limit)
             THEN getProducts(s, filters.limit)
             ELSE getProducts(s, Undefined)
  IN [svc |-> source.svc, ret |-> source.ret,
      map |-> Some(clientFiltersOf(filters))]

\* searchProducts: the source stream; its map() applies the whole filters
searchProducts(s, filters) ==
  LET source ==
        IF truthyString(filters.category)
        THEN getProductsByCategory(s, filters.category[1])
        ELSE getProducts(s, Undefined)
  IN [svc |-> source.svc, ret |-> source.ret, map |-> Some(filters)]

\* applyClientSideFilters with let filtered = products for the spread
filteredObject_noCopy(filters) ==
  IF \/ filters.searchTerm # Undefined /\ filters.searchTerm[1] # <<>>
     \/ filters.minPrice # Undefined
     \/ filters.maxPrice # Undefined
  THEN "filter"
  ELSE "argument"

\* the array object the variable filtered of applyClientSideFilters refers
\* to when sortProducts is handed it: the last filter() made it, or the
\* spread [...products] did; it is never the array passed as argument
filteredObject(filters) ==
  IF \/ filters.searchTerm # Undefined /\ filters.searchTerm[1] # <<>>
     \/ filters.minPrice # Undefined
     \/ filters.maxPrice # Undefined
  THEN "filter"
  ELSE "copy"

\* what the array passed to applyClientSideFilters holds when the call
\* returns: Array.prototype.sort orders the array filtered refers to in place
argumentAfter(products, filters) ==
  IF filteredObject(filters) = "argument" /\ truthyString(filters.sortBy)
  THEN applyClientSideFilters(products, filters)
  ELSE products

\* what an emitted array holds after the map() callbacks of its subscribers
\* have run on it one after the other
RECURSIVE arrayAfter(_, _)
arrayAfter(products, maps) ==
  IF maps = <<>> THEN products
  ELSE arrayAfter(IF Head(maps) = Undefined THEN products
                  ELSE argumentAfter(products, Head(maps)[1]),
                  Tail(maps))

\* ---- subscriptions and responses ----
\* what a subscriber is handed for a response body
mapped(body, map) ==
  IF map = Undefined THEN body ELSE applyClientSideFilters(body, map[1])

\* subscribe(observable): inner is Some(filters) for the inner subscriber
\* switchMap creates for filters. A completed shared stream replays its value
\* at once (value is what the subscriber gets synchronously); a cold
\* observable, or a shared stream without a connection, sends the request and
\* the subscriber waits as the last of s.subscribers
subscribe(s, observable, map, inner) ==
  LET stream == observable.stream
      st == s.streams[stream]
      s1 == [s EXCEPT !.subscriptions = @ + 1]
      waiter == [observable |-> observable, map |-> map, inner |-> inner]
  IN IF stream = NoStream
     THEN [svc |-> [s1 EXCEPT !.subscribers = Append(@, waiter)],
           value |-> Undefined]
     ELSE IF st.conn = "complete"
     THEN [svc |-> [s1 EXCEPT
                      !.streams[stream].buffer = Some(arrayAfter(@[1], <<map>>)),
                      !.streams[stream].delivered =
                         IF map = Undefined THEN Append(@, st.buffer[1]) ELSE @],
           value |-> Some(mapped(st.buffer[1], map))]
     ELSE [svc |-> [s1 EXCEPT
                      !.subscribers = Append(@, waiter),
                      !.streams[stream].conn = "inflight",
                      !.streams[stream].requests =
                         IF st.conn = "none" THEN @ + 1 ELSE @],
           value |-> Undefined]

\* the subscribers other than the sub-th
without(subscribers, sub) ==
  SubSeq(subscribers, 1, sub - 1) \o SubSeq(subscribers, sub + 1, Len(subscribers))

\* unsubscribe: a subscriber of a cold observable aborts its own request;
\* shareReplay(1) keeps its source connection (refCount is false)
unsubscribe(s, sub) ==
  [s EXCEPT !.subscribers = without(@, sub)]

\* respondShared with a catchError that swallows the failure: the waiting
\* subscribers are handed an empty list as a value
respondShared_swallow(s, stream, outcome) ==
  LET body == ServerBody(s.streams[stream].url, outcome.version)
      apiError == handleError(outcome.error)
      waits(waiter) == waiter.observable.stream = stream
      waiting == SelectSeq(s.subscribers, waits)
      direct == SelectSeq(waiting, LAMBDA waiter : waiter.map = Undefined)
      others == SelectSeq(s.subscribers, LAMBDA waiter : ~waits(waiter))
  IN IF outcome.ok
     THEN [svc |-> [clearError(setLoading(s, "success")) EXCEPT
                      !.streams[stream].conn = "complete",
                      !.streams[stream].buffer = Some(body),
                      !.streams[stream].delivered =
                         @ \o [i \in 1..Len(direct) |-> body],
                      !.subscribers = others],
           answers |-> [i \in 1..Len(waiting) |->
                          [inner |-> waiting[i].inner, ok |-> TRUE,
                           result |-> mapped(body, waiting[i].map)]]]
     ELSE [svc |-> [setLoading(s, "error") EXCEPT
                      !.errorSubject = Some(apiError),
                      !.streams[stream].conn = "none",
                      !.streams[stream].failures = @ + 1,
                      !.subscribers = others],
           answers |-> [i \in 1..Len(waiting) |->
                          [inner |-> waiting[i].inner, ok |-> TRUE,
                           result |-> <<>>]]]

\* respondShared with catchError(() => of([])) ahead of shareReplay(1): the
\* failure is replaced by an empty list, which the stream then replays
respondShared_cacheFailure(s, stream, outcome) ==
  LET body == IF outcome.ok THEN ServerBody(s.streams[stream].url, outcome.version)
              ELSE <<>>
      waits(waiter) == waiter.observable.stream = stream
      waiting == SelectSeq(s.subscribers, waits)
      direct == SelectSeq(waiting, LAMBDA waiter : waiter.map = Undefined)
      others == SelectSeq(s.subscribers, LAMBDA waiter : ~waits(waiter))
      s1 == IF outcome.ok THEN clearError(setLoading(s, "success"))
            ELSE [setLoading(s, "error") EXCEPT
                    !.errorSubject = Some(handleError(outcome.error)),
                    !.streams[stream].failures = @ + 1]
  IN [svc |-> [s1 EXCEPT
                 !.streams[stream].conn = "complete",
                 !.streams[stream].buffer = Some(body),
                 !.streams[stream].delivered =
                    @ \o [i \in 1..Len(direct) |-> body],
                 !.subscribers = others],
      answers |-> [i \in 1..Len(waiting) |->
                     [inner |-> waiting[i].inner, ok |-> TRUE,
                      result |-> mapped(body, waiting[i].map)]]]

\* respondShared behind a retry(): a failed request is sent again at once and
\* the subscribers keep waiting
respondShared_retry(s, stream, outcome) ==
  LET body == ServerBody(s.streams[stream].url, outcome.version)
      waits(waiter) == waiter.observable.stream = stream
      waiting == SelectSeq(s.subscribers, waits)
      direct == SelectSeq(waiting, LAMBDA waiter : waiter.map = Undefined)
      others == SelectSeq(s.subscribers, LAMBDA waiter : ~waits(waiter))
  IN IF outcome.ok
     THEN [svc |-> [clearError(setLoading(s, "success")) EXCEPT
                      !.streams[stream].conn = "complete",
                      !.streams[stream].buffer = Some(body),
                      !.streams[stream].delivered =
                         @ \o [i \in 1..Len(direct) |-> body],
                      !.subscribers = others],
           answers |-> [i \in 1..Len(waiting) |->
                          [inner |-> waiting[i].inner, ok |-> TRUE,
                           result |-> mapped(body, waiting[i].map)]]]
     ELSE [svc |-> [s EXCEPT !.streams[stream].failures = @ + 1,
                             !.streams[stream].requests = @ + 1],
           answers |-> <<>>]

\* the response of the request of a shared stream arrives: every subscriber
\* waiting on it is answered, in subscription order
respondShared(s, stream, outcome) ==
  LET body == ServerBody(s.streams[stream].url, outcome.version)
      apiError == handleError(outcome.error)
      waits(waiter) == waiter.observable.stream = stream
      waiting == SelectSeq(s.subscribers, waits)
      direct == SelectSeq(waiting, LAMBDA waiter : waiter.map = Undefined)
      others == SelectSeq(s.subscribers, LAMBDA waiter : ~waits(waiter))
  IN IF outcome.ok
     THEN [svc |-> [clearError(setLoading(s, "success")) EXCEPT
                      !.streams[stream].conn = "complete",
                      !.streams[stream].buffer =
                         Some(arrayAfter(body, [i \in 1..Len(waiting) |-> waiting[i].map])),
                      !.streams[stream].delivered =
                         @ \o [i \in 1..Len(direct) |-> body],
                      !.subscribers = others],
           answers |-> [i \in 1..Len(waiting) |->
                          [inner |-> waiting[i].inner, ok |-> TRUE,
                           result |-> mapped(body, waiting[i].map)]]]
     ELSE [svc |-> [setLoading(s, "error") EXCEPT
                      !.errorSubject = Some(apiError),
                      !.streams[stream].conn = "none",
                      !.streams[stream].failures = @ + 1,
                      !.subscribers = others],
           answers |-> [i \in 1..Len(waiting) |->
                          [inner |-> waiting[i].inner, ok |-> FALSE,
                           result |-> apiError]]]

\* respondUnshared with a handleError that also empties the caches
respondUnshared_dropsCache(s, sub, outcome) ==
  LET waiter == s.subscribers[sub]
      body == ServerBody(waiter.observable.url, outcome.version)
      apiError == handleError(outcome.error)
  IN IF outcome.ok
     THEN [svc |-> [clearError(setLoading(s, "success")) EXCEPT
                      !.subscribers = without(@, sub)],
           answers |-> << [inner |-> waiter.inner, ok |-> TRUE,
                           result |-> mapped(body, waiter.map)] >>]
     ELSE [svc |-> [clearCacheOf(setLoading(s, "error")) EXCEPT
                      !.errorSubject = Some(apiError),
                      !.subscribers = without(@, sub)],
           answers |-> << [inner |-> waiter.inner, ok |-> FALSE,
                           result |-> apiError] >>]

\* the response of the request of one subscriber of a cold observable arrives
respondUnshared(s, sub, outcome) ==
  LET waiter == s.subscribers[sub]
      body == ServerBody(waiter.observable.url, outcome.version)
      apiError == handleError(outcome.error)
  IN IF outcome.ok
     THEN [svc |-> [clearError(setLoading(s, "success")) EXCEPT
                      !.subscribers = without(@, sub)],
           answers |-> << [inner |-> waiter.inner, ok |-> TRUE,
                           result |-> mapped(body, waiter.map)] >>]
     ELSE [svc |-> [setLoading(s, "error") EXCEPT
                      !.errorSubject = Some(apiError),
                      !.subscribers = without(@, sub)],
           answers |-> << [inner |-> waiter.inner, ok |-> FALSE,
                           result |-> apiError] >>]

\* ---- the service used by its callers ----
callGetProducts(limit) ==
  LET r == getProducts(productService, limit)
  IN /\ Len(r.svc.streams) <= MaxStreams
     /\ productService' = r.svc
     /\ UNCHANGED <<cacheCleared, cartVars, pageVars, refineVars, uiVars>>

callGetCategories ==
  LET r == getCategories(productService)
  IN /\ Len(r.svc.streams) <= MaxStreams
     /\ productService' = r.svc
     /\ UNCHANGED <<cacheCleared, cartVars, pageVars, refineVars, uiVars>>

callGetProductById(id) ==
  /\ productService' = getProductById(productService, id).svc
  /\ UNCHANGED <<cacheCleared, cartVars, pageVars, refineVars, uiVars>>

clearCache ==
  /\ productService' = clearCacheOf(productService)
  /\ cacheCleared' = TRUE
  /\ UNCHANGED <<cartVars, pageVars, refineVars, uiVars>>

\* the observables callers hold: every one the service has returned
returned(s) ==
  {sharedObservable(s, stream) : stream \in 1..Len(s.streams)}
    \cup {coldObservable(url) : url \in s.cold}

\* a caller subscribes to an observable the service has returned
callerSubscribes(observable) ==
  /\ productService.subscriptions < MaxSubscribers
  /\ productService' = subscribe(productService, observable, Undefined, Undefined).svc
  /\ UNCHANGED <<cacheCleared, cartVars, pageVars, refineVars, uiVars>>

callerUnsubscribes(sub) ==
  /\ productService.subscribers[sub].inner = Undefined
  /\ productService' = unsubscribe(productService, sub)
  /\ UNCHANGED <<cacheCleared, cartVars, pageVars, refineVars, uiVars>>

httpResponseShared(stream, outcome) ==
  /\ productService.streams[stream].conn = "inflight"
  /\ productService' = respondShared(productService, stream, outcome).svc
  /\ UNCHANGED <<cacheCleared, cartVars, pageVars, refineVars, uiVars>>

httpResponseUnshared(sub, outcome) ==
  /\ productService.subscribers[sub].observable.stream = NoStream
  /\ productService' = respondUnshared(productService, sub, outcome).svc
  /\ UNCHANGED <<cacheCleared, cartVars, pageVars, refineVars, uiVars>>

\* the criteria callers hand to getFilteredProducts: category and limit each
\* absent, present but empty / zero, or present with a value
SourceFilters ==
  {[NoFilters EXCEPT !.category = category, !.limit = limit, !.sortBy = sortBy] :
     category \in {Undefined, Some(""), Some("a")},
     limit \in Limits,
     sortBy \in {Undefined, Some("price")}}

\* a caller calls getFilteredProducts(filters) and subscribes to the result
callGetFilteredProducts(filters) ==
  LET r == getFilteredProducts(productService, filters)
      sub == subscribe(r.svc, r.ret, r.map, Undefined)
  IN /\ Len(r.svc.streams) <= MaxStreams
     /\ productService.subscriptions < MaxSubscribers
     /\ productService' = sub.svc
     /\ UNCHANGED <<cacheCleared, cartVars, pageVars, refineVars, uiVars>>

\* the criteria of the callers that sort what they are handed
SortingFilters ==
  {[NoFilters EXCEPT !.category = category, !.searchTerm = searchTerm,
                     !.sortBy = Some(sortBy), !.sortOrder = sortOrder] :
     category \in {Undefined, Some("a")},
     searchTerm \in {Undefined, Some(<<"s">>)},
     sortBy \in {"price", "title", "rating"},
     sortOrder \in {Undefined, Some("desc")}}

\* a caller calls searchProducts(filters) and subscribes to the result
callSearchProducts(filters) ==
  LET r == searchProducts(productService, filters)
      sub == subscribe(r.svc, r.ret, r.map, Undefined)
  IN /\ Len(r.svc.streams) <= MaxStreams
     /\ productService.subscriptions < MaxSubscribers
     /\ productService' = sub.svc
     /\ UNCHANGED <<cacheCleared, cartVars, pageVars, refineVars, uiVars>>

InitCatalog ==
  /\ productService = NewProductService
  /\ cacheCleared = FALSE

NextCatalog ==
  \/ \E limit \in Limits : callGetProducts(limit)
  \/ callGetCategories
  \/ \E id \in {2} : callGetProductById(id)
  \/ clearCache
  \/ \E observable \in returned(productService) : callerSubscribes(observable)
  \/ \E sub \in 1..Len(productService.subscribers) : callerUnsubscribes(sub)
  \/ \E stream \in 1..Len(productService.streams), outcome \in HttpOutcomes :
       httpResponseShared(stream, outcome)
  \/ \E sub \in 1..Len(productService.subscribers), outcome \in HttpOutcomes :
       httpResponseUnshared(sub, outcome)

\* ------------------------------------------------------------------------
\* ProductsPageComponent
\* ------------------------------------------------------------------------
\* filtersForm as built by the FormBuilder
InitialFormValue ==
  [searchTerm |-> <<>>, selectedCategory |-> "", sortBy |-> "", sortOrder |-> "asc"]

SearchInputs == {<<>>, <<"s">>, <<" ">>}
CategoryInputs == {"", "a"}
SortInputs == {"", "price"}

\* the answers the page's requests get: the catalog, or a transport failure
PageOutcomes ==
  {o \in HttpOutcomes : o.ok \/ o.error.status = 0}

EmptyLog ==
  [fetches |-> <<>>, emissions |-> <<>>, superseded |-> <<>>, fired |-> Undefined]

\* a component whose products$ nobody has subscribed to
IdlePage ==
  [ formValue |-> InitialFormValue,
    debouncePending |-> Undefined, \* debounceTime(300): the value its timer holds
    distinctKey |-> Undefined,     \* distinctUntilChanged(): the last value it passed
    filtersSubject |-> NoFilters,  \* BehaviorSubject<ProductFilters>({})
    hasFormValue |-> FALSE,        \* combineLatest: the form source has emitted
    subscribed |-> FALSE,          \* products$ has a live subscriber
    accepted |-> Undefined,        \* the filters switchMap was last handed
    displayed |-> Undefined,       \* the list products$ last emitted
    displayedFor |-> Undefined,    \* the filters that list was fetched for
    failed |-> Undefined,          \* the filters whose fetch ended products$
    categories |-> Undefined,      \* categories$
    edits |-> 0,                   \* handler calls so far; the object the n-th
                                   \* one leaves in filtersForm.value is object n
    retries |-> 0 ]

\* the tap() of products$: form value to ProductFilters
toFilters(formValue) ==
  [NoFilters EXCEPT
     !.searchTerm = IF trim(formValue.searchTerm) # <<>>
                    THEN Some(trim(formValue.searchTerm)) ELSE Undefined,
     !.category = IF formValue.selectedCategory # ""
                  THEN Some(formValue.selectedCategory) ELSE Undefined,
     !.sortBy = IF formValue.sortBy # "" THEN Some(formValue.sortBy) ELSE Undefined,
     !.sortOrder = Some(IF formValue.sortOrder # "" THEN formValue.sortOrder ELSE "asc")]

\* products$ emits the list the inner subscriber for filters inner received
emit(x, inner, list) ==
  [x EXCEPT
     !.page.displayed = Some(list),
     !.page.displayedFor = inner,
     !.log.emissions = Append(@,
        [criteria |-> inner[1], latest |-> x.page.accepted[1], list |-> list])]

\* the inner subscribers of switchMap that still wait for a value
waitingInner(s) ==
  {i \in 1..Len(s.subscribers) : s.subscribers[i].inner # Undefined}

unsubscribeInner(s) ==
  [s EXCEPT !.subscribers = SelectSeq(@, LAMBDA waiter : waiter.inner = Undefined)]

\* the filters of the fetches unsubscribeInner leaves unanswered
supersededBy(s) ==
  LET inners == SelectSeq(s.subscribers, LAMBDA waiter : waiter.inner # Undefined)
  IN [i \in 1..Len(inners) |-> inners[i].inner[1]]

\* the projection without the unsubscription of the previous inner (mergeMap)
switchMapNext_keepInner(x, filters) ==
  LET r == getFilteredProducts(x.svc, filters)
      sub == subscribe(r.svc, r.ret, r.map, Some(filters))
      x1 == [x EXCEPT !.svc = sub.svc,
                      !.page.accepted = Some(filters),
                      !.log.fetches = Append(@, filters)]
  IN IF sub.value # Undefined
     THEN emit(x1, Some(filters), sub.value[1])
     ELSE x1

\* switchMap(([filters]) => getFilteredProducts(filters)) receives a value:
\* the previous inner subscriber is unsubscribed, the new stream subscribed to
switchMapNext(x, filters) ==
  LET r == getFilteredProducts(unsubscribeInner(x.svc), filters)
      sub == subscribe(r.svc, r.ret, r.map, Some(filters))
      x1 == [x EXCEPT !.svc = sub.svc,
                      !.page.accepted = Some(filters),
                      !.log.fetches = Append(@, filters),
                      !.log.superseded = @ \o supersededBy(x.svc)]
  IN IF sub.value # Undefined
     THEN emit(x1, Some(filters), sub.value[1])
     ELSE x1

\* filtersSubject.next(filters): combineLatest emits once both sources have
filtersSubjectNext(x, filters) ==
  LET x1 == [x EXCEPT !.page.filtersSubject = filters]
  IN IF x.page.subscribed /\ x.page.hasFormValue
     THEN switchMapNext(x1, filters)
     ELSE x1

\* distinctUntilChanged(): the default comparator is ===, object identity
distinctSuppresses(key, value) ==
  key # Undefined /\ key[1].object = value.object

\* the debounce timer fires with the value it holds: distinctUntilChanged,
\* tap (filtersSubject.next), then the form source of combineLatest
debounceEmits(x, value) ==
  LET x0 == [x EXCEPT !.page.debouncePending = Undefined]
  IN IF distinctSuppresses(x.page.distinctKey, value)
     THEN x0
     ELSE LET x1 == filtersSubjectNext(
                      [x0 EXCEPT !.page.distinctKey = Some(value)],
                      toFilters(value.value))
              x2 == [x1 EXCEPT !.page.hasFormValue = TRUE]
          IN switchMapNext(x2, x2.page.filtersSubject)

\* filtersForm.valueChanges emits a new object; the debounce timer restarts
valueChanges(x, formValue) ==
  [x EXCEPT !.page.formValue = formValue,
            !.page.debouncePending =
               IF x.page.subscribed
               THEN Some([object |-> x.page.edits + 1, value |-> formValue])
               ELSE @]

\* inner subscribers were answered: a value is emitted by products$, an
\* error ends products$ and unsubscribes everything upstream
RECURSIVE deliver(_, _, _)
deliver(x, answers, i) ==
  IF i > Len(answers) THEN x
  ELSE IF answers[i].inner = Undefined \/ ~x.page.subscribed
       THEN deliver(x, answers, i + 1)
  ELSE IF answers[i].ok
       THEN deliver(emit(x, answers[i].inner, answers[i].result), answers, i + 1)
  ELSE deliver([x EXCEPT !.page.subscribed = FALSE,
                         !.page.debouncePending = Undefined,
                         !.page.failed = answers[i].inner,
                         !.svc = unsubscribeInner(x.svc)],
               answers, i + 1)

Cur == [svc |-> productService, page |-> page, log |-> EmptyLog]

Apply(x) ==
  /\ productService' = x.svc
  /\ page' = x.page
  /\ log' = x.log
  /\ UNCHANGED <<cartVars, refineVars, uiVars>>

edited(x) == [x EXCEPT !.page.edits = @ + 1]

onSearchChange(searchTerm) ==
  /\ page.edits < MaxEdits
  /\ Apply(edited(valueChanges(Cur, [page.formValue EXCEPT !.searchTerm = searchTerm])))
  /\ UNCHANGED cacheCleared

onCategoryChange(category) ==
  /\ page.edits < MaxEdits
  /\ LET x1 == valueChanges(Cur, [page.formValue EXCEPT !.selectedCategory = category])
     IN Apply(edited(IF category # ""
                     THEN valueChanges(x1, [x1.page.formValue EXCEPT !.searchTerm = <<>>])
                     ELSE x1))
  /\ UNCHANGED cacheCleared

onSortChange(sortBy) ==
  /\ page.edits < MaxEdits
  /\ Apply(edited(valueChanges(Cur, [page.formValue EXCEPT !.sortBy = sortBy])))
  /\ UNCHANGED cacheCleared

clearFilters ==
  /\ page.edits < MaxEdits
  /\ Apply(edited(valueChanges(Cur, InitialFormValue)))
  /\ UNCHANGED cacheCleared

\* 300ms have passed since the last valueChanges emission
debounceTimerFires ==
  /\ page.debouncePending # Undefined
  /\ LET x == debounceEmits(Cur, page.debouncePending[1])
     IN Apply([x EXCEPT !.log.fired =
                 Some([value |-> page.debouncePending[1].value,
                       formValue |-> page.formValue,
                       previous |-> page.distinctKey,
                       suppressed |-> distinctSuppresses(page.distinctKey,
                                                         page.debouncePending[1])])])
  /\ UNCHANGED cacheCleared

retryLoad ==
  /\ page.retries < MaxRetries
  /\ LET x == [Cur EXCEPT !.svc = clearCacheOf(productService),
                          !.page.retries = @ + 1]
     IN Apply(filtersSubjectNext(x, NoFilters))
  /\ cacheCleared' = TRUE

pageResponseShared(stream, outcome) ==
  /\ productService.streams[stream].conn = "inflight"
  /\ LET r == respondShared(productService, stream, outcome)
     IN Apply(deliver([Cur EXCEPT !.svc = r.svc], r.answers, 1))
  /\ UNCHANGED cacheCleared

pageResponseUnshared(sub, outcome) ==
  /\ productService.subscribers[sub].observable.stream = NoStream
  /\ LET r == respondUnshared(productService, sub, outcome)
     IN Apply(deliver([Cur EXCEPT !.svc = r.svc], r.answers, 1))
  /\ UNCHANGED cacheCleared

\* no page: the services alone
InitNoPage ==
  /\ page = IdlePage
  /\ log = EmptyLog

\* the component is constructed (categories$ = getCategories()), ngOnInit has
\* run (filtersSubject.next({}) without subscribers) and the template has
\* subscribed to products$: startWith() has put the form value in the debounce
InitPage ==
  /\ productService = getCategories(NewProductService).svc
  /\ cacheCleared = FALSE
  /\ page = [IdlePage EXCEPT
       !.categories = Some(getCategories(NewProductService).ret),
       !.subscribed = TRUE,
       !.debouncePending = Some([object |-> 0, value |-> InitialFormValue])]
  /\ log = EmptyLog

NextPage ==
  \/ \E searchTerm \in SearchInputs : onSearchChange(searchTerm)
  \/ \E category \in CategoryInputs : onCategoryChange(category)
  \/ \E sortBy \in SortInputs : onSortChange(sortBy)
  \/ clearFilters
  \/ debounceTimerFires
  \/ retryLoad
  \/ \E stream \in 1..Len(productService.streams), outcome \in PageOutcomes :
       pageResponseShared(stream, outcome)
  \/ \E sub \in 1..Len(productService.subscribers), outcome \in PageOutcomes :
       pageResponseUnshared(sub, outcome)

\* ------------------------------------------------------------------------
\* The map() callback of getFilteredProducts
\* ------------------------------------------------------------------------
MaxProducts == 3

\* products as the API sends them: equal prices, titles equal but for case,
\* a price of 0, a rating that is absent and one whose rate is 0
ProductPool ==
  { [id |-> 1, title |-> <<"S", "h">>, description |-> <<"x">>,
     price |-> 5, category |-> "a", rating |-> Some(4)],
    [id |-> 2, title |-> <<"t">>, description |-> <<"s">>,
     price |-> 0, category |-> "b", rating |-> Undefined],
    [id |-> 3, title |-> <<"s", "h">>, description |-> <<"y">>,
     price |-> 5, category |-> "a", rating |-> Some(0)],
    [id |-> 4, title |-> <<"x">>, description |-> <<"S">>,
     price |-> 15, category |-> "a", rating |-> Some(4)] }

ProductLists == UNION {[1..n -> ProductPool] : n \in 0..MaxProducts}

\* clientFilters: what is left of the criteria without category and limit
ClientFilters ==
  {[NoFilters EXCEPT !.searchTerm = searchTerm, !.minPrice = minPrice,
                     !.maxPrice = maxPrice, !.sortBy = sortBy,
                     !.sortOrder = sortOrder] :
     searchTerm \in {Undefined, Some(<<>>), Some(<<"s">>), Some(<<"S", "H">>)},
     minPrice \in {Undefined, Some(0), Some(5)},
     maxPrice \in {Undefined, Some(0), Some(5)},
     sortBy \in {Undefined, Some("price"), Some("title"), Some("rating")},
     sortOrder \in {Undefined, Some("asc"), Some("desc")}}

NoRefinement == [products |-> <<>>, filters |-> NoFilters, filtered |-> Undefined]

InitNoRefinement == refinement = NoRefinement

\* a response body and the clientFilters of a call are handed to the callback
InitRefinement ==
  refinement \in [products : ProductLists, filters : ClientFilters,
                  filtered : {Undefined}]

\* map(products => this.applyClientSideFilters(products, clientFilters))
mapApplyClientSideFilters ==
  /\ refinement.filtered = Undefined
  /\ refinement' = [refinement EXCEPT !.filtered =
                      Some(applyClientSideFilters(refinement.products,
                                                  refinement.filters))]
  /\ UNCHANGED <<cartVars, catalogVars, pageVars, uiVars>>

NextRefine == mapApplyClientSideFilters

\* ------------------------------------------------------------------------
\* Specifications
\* ------------------------------------------------------------------------
\* a CartService nobody uses, over working storage
CartIdle == InitCart /\ ~storageThrows

\* ------------------------------------------------------------------------
\* TokenStorageService, AuthService, AuthInterceptor
\* ------------------------------------------------------------------------
MaxLogins == 2

\* the JWTs the login endpoint answers with, the names users log in with
Tokens == {"t1", "t2"}
Usernames == {"u"}

\* the value of an Authorization header
Bearer(token) == <<"Bearer", token>>

\* the requests the app hands to HttpClient: without an Authorization
\* header, or with one a caller has set
Requests ==
  [url : {"products"},
   authorization : {Undefined, Some(<<"Basic", "x">>), Some(Bearer("t2"))}]

\* a page that has no AuthService yet; localToken is
\* localStorage['binFawzi_auth_token']
NoSession ==
  [ memoryStorage |-> Undefined,  \* TokenStorageService.memoryStorage['auth_token']
    localToken |-> Undefined,
    currentUser |-> Undefined,    \* _currentUser$.value
    inflight |-> <<>>,            \* the subscribed login requests without response
    route |-> "/",                \* where the router was last sent
    isEnabled |-> TRUE,           \* AUTH_INTERCEPTOR_ENABLED
    handled |-> Undefined ]       \* the request the interceptor last passed on

\* try { localStorage.removeItem } catch {}
clearPersistedToken(a) ==
  IF storageThrows THEN a ELSE [a EXCEPT !.localToken = Undefined]

\* setToken that persists whatever the flag says
setToken_alwaysPersists(a, token, persistent) ==
  LET a1 == [a EXCEPT !.memoryStorage = Some(token)]
  IN IF storageThrows THEN a1 ELSE [a1 EXCEPT !.localToken = Some(token)]

setToken(a, token, persistent) ==
  LET a1 == [a EXCEPT !.memoryStorage = Some(token)]
  IN IF persistent
     THEN IF storageThrows THEN a1 ELSE [a1 EXCEPT !.localToken = Some(token)]
     ELSE clearPersistedToken(a1)

\* getToken: the memory entry when truthy, else the persisted one, which is
\* put into memory; ret is Undefined for null
getToken(a) ==
  IF truthyString(a.memoryStorage)
  THEN [auth |-> a, ret |-> a.memoryStorage]
  ELSE IF ~storageThrows /\ truthyString(a.localToken)
  THEN [auth |-> [a EXCEPT !.memoryStorage = a.localToken], ret |-> a.localToken]
  ELSE [auth |-> a, ret |-> Undefined]

\* clearToken that leaves the localStorage entry
clearToken_memoryOnly(a) == [a EXCEPT !.memoryStorage = Undefined]

clearToken(a) == clearPersistedToken([a EXCEPT !.memoryStorage = Undefined])

restoreUserSession(a, token) ==
  [a EXCEPT !.currentUser = Some([username |-> "restored_user", token |-> token])]

\* initializeAuthState that never restores a session
initializeAuthState_noRestore(a) ==
  [getToken(a).auth EXCEPT !.currentUser = Undefined]

initializeAuthState(a) ==
  LET r == getToken(a)
  IN IF r.ret # Undefined
     THEN restoreUserSession(r.auth, r.ret[1])
     ELSE [r.auth EXCEPT !.currentUser = Undefined]

\* AuthService.logout as a function of the session
logoutOf(a) ==
  [clearToken(a) EXCEPT !.currentUser = Undefined, !.route = "/auth/login"]

isLoggedIn(a) == a.currentUser # Undefined

\* intercept that sets the header on every request when a token is there
intercept_overrides(a, request) ==
  IF ~a.isEnabled
  THEN [auth |-> a, handled |-> request]
  ELSE LET r == getToken(a)
       IN IF r.ret = Undefined
          THEN [auth |-> r.auth, handled |-> request]
          ELSE [auth |-> r.auth,
                handled |-> [request EXCEPT !.authorization = Some(Bearer(r.ret[1]))]]

\* AuthInterceptor.intercept: the request next.handle is given
intercept(a, request) ==
  IF ~a.isEnabled
  THEN [auth |-> a, handled |-> request]
  ELSE LET r == getToken(a)
       IN IF r.ret = Undefined
          THEN [auth |-> r.auth, handled |-> request]
          ELSE IF request.authorization # Undefined
          THEN [auth |-> r.auth, handled |-> request]
          ELSE [auth |-> r.auth,
                handled |-> [request EXCEPT !.authorization = Some(Bearer(r.ret[1]))]]

\* HttpClient sends a request: it passes the interceptor
send(a, request) ==
  LET r == intercept(a, request)
  IN [r.auth EXCEPT !.handled = Some(r.handled)]

\* a page load: a new TokenStorageService and a new AuthService, whose
\* constructor calls initializeAuthState; the requests of the page before are gone
startupOf(a) ==
  initializeAuthState([a EXCEPT !.memoryStorage = Undefined,
                                !.currentUser = Undefined,
                                !.inflight = <<>>,
                                !.route = "/",
                                !.handled = Undefined])

startup ==
  /\ auth' = startupOf(auth)
  /\ UNCHANGED <<cartVars, catalogVars, pageVars, refineVars, details, notifications>>

\* the login form subscribes to login(credentials, rememberMe): the POST
\* passes the interceptor and waits for its response
callLogin(username, rememberMe) ==
  /\ Len(auth.inflight) < MaxLogins
  /\ auth' = [send(auth, [url |-> "auth/login", authorization |-> Undefined])
                EXCEPT !.inflight =
                  Append(@, [username |-> username, rememberMe |-> rememberMe])]
  /\ UNCHANGED <<cartVars, catalogVars, pageVars, refineVars, details, notifications>>

withoutRequest(a, i) ==
  [a EXCEPT !.inflight = SubSeq(@, 1, i - 1) \o SubSeq(@, i + 1, Len(@))]

\* the pipe of login() on a response: setToken, createUserProfile, next(user)
loginSucceeds(i, token) ==
  /\ i \in 1..Len(auth.inflight)
  /\ auth' = [withoutRequest(setToken(auth, token, auth.inflight[i].rememberMe), i)
                EXCEPT !.currentUser =
                  Some([username |-> auth.inflight[i].username, token |-> token])]
  /\ UNCHANGED <<cartVars, catalogVars, pageVars, refineVars, details, notifications>>

\* catchError(handleAuthError): the subscriber gets an Error, no state changes
loginFails(i) ==
  /\ i \in 1..Len(auth.inflight)
  /\ auth' = withoutRequest(auth, i)
  /\ UNCHANGED <<cartVars, catalogVars, pageVars, refineVars, details, notifications>>

logout ==
  /\ auth' = logoutOf(auth)
  /\ UNCHANGED <<cartVars, catalogVars, pageVars, refineVars, details, notifications>>

\* some service of the app sends a request
httpRequest(request) ==
  /\ auth' = send(auth, request)
  /\ UNCHANGED <<cartVars, catalogVars, pageVars, refineVars, details, notifications>>

\* the app starts in a browser in which an earlier visit may have left a token
InitAuth ==
  /\ \E isEnabled \in BOOLEAN, localToken \in {Undefined} \cup {Some(t) : t \in Tokens} :
       auth = startupOf([NoSession EXCEPT !.isEnabled = isEnabled,
                                          !.localToken = localToken])

InitNoAuth == auth = NoSession

NextAuth ==
  \/ startup
  \/ \E username \in Usernames, rememberMe \in BOOLEAN : callLogin(username, rememberMe)
  \/ \E i \in 1..MaxLogins, token \in Tokens : loginSucceeds(i, token)
  \/ \E i \in 1..MaxLogins : loginFails(i)
  \/ logout
  \/ \E request \in Requests : httpRequest(request)

\* ------------------------------------------------------------------------
\* NotificationService
\* ------------------------------------------------------------------------
MaxNotifications == 3

\* the ids generateId can return: `notification_${Date.now()}_${random}`
\* is taken to differ from every id that is shown or has a timer armed
NotificationIds == 1..MaxNotifications

\* the durations callers pass: none, the defaults of showSuccess and showError
Durations == {0, 3000, 5000}

\* new NotificationService(): an empty list, no setTimeout pending
NoNotifications == [list |-> <<>>, timers |-> {}]
InitNoNotifications == notifications = NoNotifications

shown(n) == {n.list[i].id : i \in 1..Len(n.list)}

generateId(n) ==
  CHOOSE id \in NotificationIds : id \notin shown(n) \cup n.timers

\* removeNotification that drops the notifications up to the one with the id
removeNotificationOf_upTo(n, id) ==
  LET at == {i \in 1..Len(n.list) : n.list[i].id = id}
  IN IF at = {} THEN n
     ELSE [n EXCEPT !.list = SubSeq(@, (CHOOSE i \in at : TRUE) + 1, Len(@))]

\* removeNotification: filter(n => n.id !== id)
removeNotificationOf(n, id) ==
  [n EXCEPT !.list = SelectSeq(@, LAMBDA shownOne : shownOne.id # id)]

\* addNotification: append, and arm the timer for a positive duration
addNotification(n, notification) ==
  [n EXCEPT !.list = Append(@, notification),
            !.timers = IF notification.duration > 0
                       THEN @ \cup {notification.id} ELSE @]

\* showAddToCartSuccess(productName): a success notification of 3000 ms
showAddToCartSuccessOf(n, productName) ==
  addNotification(n, [id |-> generateId(n), type |-> "success",
                      duration |-> 3000, productName |-> Some(productName)])

\* showSuccess(message, duration) and showError(message, duration)
show(type, duration) ==
  /\ Cardinality(shown(notifications) \cup notifications.timers) < MaxNotifications
  /\ notifications' =
       addNotification(notifications,
                       [id |-> generateId(notifications), type |-> type,
                        duration |-> duration, productName |-> Undefined])
  /\ UNCHANGED <<cartVars, catalogVars, pageVars, refineVars, auth, details>>

\* the callback of setTimeout runs: removeNotification(notification.id)
timerFires(id) ==
  /\ id \in notifications.timers
  /\ notifications' = [removeNotificationOf(notifications, id) EXCEPT !.timers = @ \ {id}]
  /\ UNCHANGED <<cartVars, catalogVars, pageVars, refineVars, auth, details>>

\* the user closes a notification
removeNotification(id) ==
  /\ id \in shown(notifications)
  /\ notifications' = removeNotificationOf(notifications, id)
  /\ UNCHANGED <<cartVars, catalogVars, pageVars, refineVars, auth, details>>

clearAll ==
  /\ notifications' = [notifications EXCEPT !.list = <<>>]
  /\ UNCHANGED <<cartVars, catalogVars, pageVars, refineVars, auth, details>>

NextNotifications ==
  \/ \E type \in {"success", "error"}, duration \in Durations : show(type, duration)
  \/ \E id \in NotificationIds : timerFires(id)
  \/ \E id \in NotificationIds : removeNotification(id)
  \/ clearAll

\* ------------------------------------------------------------------------
\* ProductDetailsComponent
\* ------------------------------------------------------------------------
\* the ids the route /products/:id is opened with: Number(params['id']) of
\* '0' is falsy, the others are ids of the catalog
RouteIds == {0, 1, 3}

\* the texts the quantity inputs are handed
InputTexts == {"", "0", "1", "2", "99", "100", "12abc"}

\* parseInt(value, 10): Undefined is NaN
parseInt(value) ==
  CASE value = "0" -> Some(0)
    [] value = "1" -> Some(1)
    [] value = "2" -> Some(2)
    [] value = "99" -> Some(99)
    [] value = "100" -> Some(100)
    [] value = "12abc" -> Some(12)
    [] OTHER -> Undefined

\* no component on the page
NoDetails ==
  [ alive |-> FALSE,
    routeId |-> Undefined,     \* the id route.params last emitted
    product |-> Undefined,     \* product signal
    loading |-> "idle",
    error |-> Undefined,
    quantity |-> 1,
    navigated |-> Undefined ]  \* where the component sent the router

InitNoDetails == details = NoDetails

\* what the cart keeps of a Product
cartProduct(product) == [id |-> product.id, price |-> product.price]

\* loadProduct(id): getProductById(id) is subscribed to; the subscriptions
\* made before stay as they are
loadProduct(d, s, id) ==
  LET r == getProductById(s, id)
  IN [details |-> [d EXCEPT !.loading = "loading", !.error = Undefined],
      svc |-> subscribe(r.svc, r.ret, Undefined, Undefined).svc]

\* the subscriber of route.params is handed an id
paramsNext(d, s, id) ==
  IF id # 0
  THEN loadProduct([d EXCEPT !.routeId = Some(id)], s, id)
  ELSE [details |-> [d EXCEPT !.routeId = Some(id), !.navigated = Some("/products")],
        svc |-> s]

\* the router opens /products/:id with the component on the page
routeParams(id) ==
  LET r == paramsNext(details, productService, id)
  IN /\ details.alive
     /\ productService.subscriptions < MaxSubscribers
     /\ details' = r.details
     /\ productService' = r.svc
     /\ UNCHANGED <<cacheCleared, cartVars, pageVars, refineVars, auth, notifications>>

\* the response of one getProductById request arrives: next or error of the
\* subscriber in loadProduct; the body of a product the server does not
\* have is null
detailsResponse(sub, outcome) ==
  LET r == respondUnshared(productService, sub, outcome)
      answer == r.answers[1]
  IN /\ details.alive
     /\ sub \in 1..Len(productService.subscribers)
     /\ productService' = r.svc
     /\ details' =
          IF answer.ok
          THEN [details EXCEPT
                  !.product = IF answer.result = <<>> THEN Undefined
                              ELSE Some(answer.result[1]),
                  !.loading = "success"]
          ELSE [details EXCEPT
                  !.error = Some("Failed to load product details"),
                  !.loading = "error"]
     /\ UNCHANGED <<cacheCleared, cartVars, pageVars, refineVars, auth, notifications>>

\* ngOnDestroy: takeUntil(destroy$) unsubscribes from the params and from
\* every request
ngOnDestroy ==
  /\ details.alive
  /\ details' = [details EXCEPT !.alive = FALSE]
  /\ productService' = [productService EXCEPT !.subscribers = <<>>]
  /\ UNCHANGED <<cacheCleared, cartVars, pageVars, refineVars, auth, notifications>>

\* the quantity selector
detailsIncreaseQuantity ==
  /\ details.alive
  /\ details' = IF details.quantity < 99
                THEN [details EXCEPT !.quantity = @ + 1] ELSE details
  /\ UNCHANGED <<cartVars, catalogVars, pageVars, refineVars, auth, notifications>>

detailsDecreaseQuantity ==
  /\ details.alive
  /\ details' = IF details.quantity > 1
                THEN [details EXCEPT !.quantity = @ - 1] ELSE details
  /\ UNCHANGED <<cartVars, catalogVars, pageVars, refineVars, auth, notifications>>

detailsUpdateQuantity(value) ==
  LET numValue == parseInt(value)
  IN /\ details.alive
     /\ details' = IF numValue # Undefined /\ numValue[1] >= 1 /\ numValue[1] <= 99
                   THEN [details EXCEPT !.quantity = numValue[1]] ELSE details
     /\ UNCHANGED <<cartVars, catalogVars, pageVars, refineVars, auth, notifications>>

\* a component calls cartService.addToCart(product, quantity) and then
\* notificationService.showAddToCartSuccess(product.title)
addToCartAndNotify(product, quantity) ==
  LET newItems == addToCartItems(cartItems, cartProduct(product), quantity)
  IN /\ Cardinality(shown(notifications) \cup notifications.timers) < MaxNotifications
     /\ cartItemsSet(newItems)
     /\ saveCartToStorage(newItems)
     /\ notifications' = showAddToCartSuccessOf(notifications, product.title)
     /\ UNCHANGED <<storageThrows, catalogVars, pageVars, refineVars, auth, details>>

\* ProductDetailsComponent.addToCart: the product shown, the quantity selected
detailsAddToCart ==
  /\ details.alive
  /\ details.product # Undefined
  /\ \A i \in 1..Len(cartItems) : cartItems[i].quantity <= MaxQty
  /\ addToCartAndNotify(details.product[1], details.quantity)

\* the component is created for /products/:id: ngOnInit subscribes to
\* route.params, which emits the id at once
InitDetails ==
  \E id \in RouteIds :
    LET r == paramsNext([NoDetails EXCEPT !.alive = TRUE], NewProductService, id)
    IN /\ details = r.details
       /\ productService = r.svc
       /\ cacheCleared = FALSE

NextDetails ==
  \/ \E id \in RouteIds : routeParams(id)
  \/ \E sub \in 1..MaxSubscribers, outcome \in HttpOutcomes : detailsResponse(sub, outcome)
  \/ ngOnDestroy
  \/ \E value \in InputTexts : detailsUpdateQuantity(value)
  \/ detailsAddToCart
  \/ \E id \in NotificationIds : timerFires(id)

\* ------------------------------------------------------------------------
\* The cart as the pages drive it
\* ------------------------------------------------------------------------
\* the product the products page lists and the details page shows
ListedProduct == ServerCatalog(1)[1]

\* ProductsPageComponent.addToCart(product): one of the product
pageAddToCart ==
  /\ \A i \in 1..Len(cartItems) : cartItems[i].quantity <= 99
  /\ Cardinality(shown(notifications) \cup notifications.timers) < 1
  /\ addToCartAndNotify(ListedProduct, 1)

\* ProductDetailsComponent.addToCart with the quantity of its selector
selectorAddToCart ==
  /\ \A i \in 1..Len(cartItems) : cartItems[i].quantity <= 99
  /\ Cardinality(shown(notifications) \cup notifications.timers) < 1
  /\ details.alive
  /\ details.product # Undefined
  /\ addToCartAndNotify(details.product[1], details.quantity)

\* the rows of the cart page: the template hands the handlers item.id and
\* item.quantity of the row
cartIncreaseQuantity(row) ==
  /\ row \in 1..Len(cartItems)
  /\ IF cartItems[row].quantity >= 99
     THEN UNCHANGED vars
     ELSE updateQuantity(cartItems[row].id, cartItems[row].quantity + 1)

cartDecreaseQuantity(row) ==
  /\ row \in 1..Len(cartItems)
  /\ IF cartItems[row].quantity <= 1
     THEN UNCHANGED vars
     ELSE updateQuantity(cartItems[row].id, cartItems[row].quantity - 1)

cartRemoveFromCart(row) ==
  /\ row \in 1..Len(cartItems)
  /\ removeFromCart(cartItems[row].id)

\* onQuantityInput: the text of the input of the row
onQuantityInput(row, value) ==
  LET newQuantity == parseInt(value)
  IN /\ row \in 1..Len(cartItems)
     /\ IF newQuantity # Undefined /\ newQuantity[1] > 0 /\ newQuantity[1] <= 99
        THEN updateQuantity(cartItems[row].id, newQuantity[1])
        ELSE UNCHANGED vars

\* CartComponent.updateQuantity(productId, newQuantity)
cartUpdateQuantity(row, newQuantity) ==
  /\ row \in 1..Len(cartItems)
  /\ IF newQuantity < 1
     THEN UNCHANGED vars
     ELSE updateQuantity(cartItems[row].id, newQuantity)

\* the details page shows the listed product, no request is in flight
InitShopping ==
  /\ details = [NoDetails EXCEPT !.alive = TRUE,
                                 !.routeId = Some(ListedProduct.id),
                                 !.product = Some(ListedProduct),
                                 !.loading = "success"]
  /\ InitCatalog

NextShopping ==
  \/ pageAddToCart
  \/ selectorAddToCart
  \/ detailsIncreaseQuantity
  \/ detailsDecreaseQuantity
  \/ \E value \in InputTexts : detailsUpdateQuantity(value)
  \/ \E row \in 1..MaxCartLen : cartIncreaseQuantity(row)
  \/ \E row \in 1..MaxCartLen : cartDecreaseQuantity(row)
  \/ \E row \in 1..MaxCartLen : cartRemoveFromCart(row)
  \/ \E row \in 1..MaxCartLen, value \in InputTexts : onQuantityInput(row, value)
  \/ \E row \in 1..MaxCartLen, newQuantity \in {0, 1, 99} : cartUpdateQuantity(row, newQuantity)
  \/ \E id \in NotificationIds : timerFires(id)

InitNoUi == InitNoAuth /\ InitNoDetails /\ InitNoNotifications

\* ------------------------------------------------------------------------
\* Specifications
\* ------------------------------------------------------------------------
InitAuthOnly ==
  /\ storageThrows \in BOOLEAN
  /\ cartStorage = NoBlob
  /\ cartItems = <<>>
  /\ summaryMemo = <<>>
  /\ uncaught = FALSE
  /\ InitCatalog /\ InitNoPage /\ InitNoRefinement
  /\ InitAuth /\ InitNoDetails /\ InitNoNotifications
SpecAuth == InitAuthOnly /\ [][NextAuth]_vars

InitDetailsOnly ==
  /\ CartIdle /\ InitDetails /\ InitNoPage /\ InitNoRefinement
  /\ InitNoAuth /\ InitNoNotifications
SpecDetails == InitDetailsOnly /\ [][NextDetails]_vars

InitShoppingOnly ==
  /\ CartIdle /\ InitShopping /\ InitNoPage /\ InitNoRefinement
  /\ InitNoAuth /\ InitNoNotifications
SpecShopping == InitShoppingOnly /\ [][NextShopping]_vars

\* the browser runs the callback of every setTimeout that is pending
InitNotificationsOnly ==
  CartIdle /\ InitCatalog /\ InitNoPage /\ InitNoRefinement /\ InitNoUi
SpecNotifications ==
  /\ InitNotificationsOnly
  /\ [][NextNotifications]_vars
  /\ \A id \in NotificationIds : WF_vars(timerFires(id))

InitCartOnly == InitCart /\ InitCatalog /\ InitNoPage /\ InitNoRefinement /\ InitNoUi
InitCatalogOnly == CartIdle /\ InitCatalog /\ InitNoPage /\ InitNoRefinement /\ InitNoUi
InitProductsPage == CartIdle /\ InitPage /\ InitNoRefinement /\ InitNoUi

SpecCart == InitCartOnly /\ [][NextCart]_vars
\* the calls on a cart whose items hold NaN are not followed: their
\* arithmetic is outside the numbers of this module
NextStorage ==
  \/ newCartService
  \/ /\ \A i \in 1..Len(cartItems) : "price" \in DOMAIN cartItems[i].product
     /\ NextCart

InitStorageOnly == InitStorage /\ InitCatalog /\ InitNoPage /\ InitNoRefinement /\ InitNoUi
SpecStorage == InitStorageOnly /\ [][NextStorage]_vars
SpecCatalog == InitCatalogOnly /\ [][NextCatalog]_vars
SpecPage == InitProductsPage /\ [][NextPage]_vars
InitRefineOnly == CartIdle /\ InitCatalog /\ InitNoPage /\ InitRefinement /\ InitNoUi
SpecRefine == InitRefineOnly /\ [][NextRefine]_vars

\* getFilteredProducts alone: callers with every kind of criteria
NextSource ==
  \/ \E filters \in SourceFilters : callGetFilteredProducts(filters)
  \/ \E stream \in 1..Len(productService.streams), outcome \in HttpOutcomes :
       httpResponseShared(stream, outcome)
  \/ \E sub \in 1..Len(productService.subscribers), outcome \in HttpOutcomes :
       httpResponseUnshared(sub, outcome)

SpecSource == InitCatalogOnly /\ [][NextSource]_vars

\* getFilteredProducts and searchProducts by callers that sort
NextReplay ==
  \/ \E filters \in SortingFilters : callGetFilteredProducts(filters)
  \/ \E filters \in SortingFilters : callSearchProducts(filters)
  \/ \E stream \in 1..Len(productService.streams), outcome \in HttpOutcomes :
       httpResponseShared(stream, outcome)
  \/ \E sub \in 1..Len(productService.subscribers), outcome \in HttpOutcomes :
       httpResponseUnshared(sub, outcome)

SpecReplay == InitCatalogOnly /\ [][NextReplay]_vars

\* handleError alone: fetches of a product and of the categories that fail
\* in every way
NextErrors ==
  \/ \E id \in {2} : callGetProductById(id)
  \/ callGetCategories
  \/ \E observable \in returned(productService) : callerSubscribes(observable)
  \/ \E sub \in 1..Len(productService.subscribers), error \in HttpErrors :
       httpResponseUnshared(sub, [ok |-> FALSE, error |-> error])
  \/ \E stream \in 1..Len(productService.streams), error \in HttpErrors :
       httpResponseShared(stream, [ok |-> FALSE, error |-> error])

SpecErrors == InitCatalogOnly /\ [][NextErrors]_vars

\* ------------------------------------------------------------------------
\* Properties of CartService
\* ------------------------------------------------------------------------
RECURSIVE SeqSum(_)
SeqSum(s) == IF s = <<>> THEN 0 ELSE Head(s) + SeqSum(Tail(s))

\* C3: in every reachable cart state every CartItem satisfies
\* lineTotal = item.product.price * item.quantity
C3_LineTotalIsPriceTimesQuantity ==
  \A i \in 1..Len(cartItems) :
    cartItems[i].lineTotal = cartItems[i].product.price * cartItems[i].quantity

\* C4: in every reachable cart state every CartItem has quantity >= 1
C4_QuantityAtLeastOne ==
  \A i \in 1..Len(cartItems) : cartItems[i].quantity >= 1

\* C5: in every reachable cart state there is at most one CartItem per
\* product id
C5_OneItemPerProductId ==
  \A i, j \in 1..Len(cartItems) :
    cartItems[i].id = cartItems[j].id => i = j

\* addToCart has acted on a product already in a two-item cart
C5_Witness ==
  /\ Len(cartItems) = 2
  /\ cartItems[1].quantity >= 2
  /\ cartStorage # NoBlob

\* C6: in every reachable cart state a read of summary() gives
\* subtotal = sum of lineTotal, shipping = 0, total = subtotal + shipping,
\* itemCount = sum of quantity, over the current items
C6_SummaryIsPureFunctionOfItems ==
  /\ summaryValue.subtotal = SeqSum([i \in 1..Len(cartItems) |-> cartItems[i].lineTotal])
  /\ summaryValue.shipping = 0
  /\ summaryValue.total = summaryValue.subtotal + summaryValue.shipping
  /\ summaryValue.itemCount = SeqSum([i \in 1..Len(cartItems) |-> cartItems[i].quantity])

\* summary() was read on a cart of two items after the cart was mutated:
\* computed() holds the value of the current items
C6_Witness ==
  /\ Len(cartItems) = 2
  /\ summaryMemo # <<>>
  /\ summaryMemo[1].itemCount >= 3
  /\ summaryMemo[1].subtotal > summaryMemo[1].itemCount

\* ------------------------------------------------------------------------
\* Properties of ProductService
\* ------------------------------------------------------------------------
\* the two cached resources, by the URL their streams request
CachedKeys == {[path |-> "products", limit |-> Undefined], [path |-> "categories"]}

StreamsOf(key) ==
  {i \in 1..Len(productService.streams) : productService.streams[i].url = key}

WaitingOn(key) ==
  {j \in 1..Len(productService.subscribers) :
     productService.subscribers[j].observable.stream \in StreamsOf(key)}

RECURSIVE SumRequests(_)
SumRequests(streamSet) ==
  IF streamSet = {} THEN 0
  ELSE LET i == CHOOSE x \in streamSet : TRUE
       IN productService.streams[i].requests + SumRequests(streamSet \ {i})

DeliveredOf(key) ==
  UNION {{productService.streams[i].delivered[k] :
            k \in 1..Len(productService.streams[i].delivered)} : i \in StreamsOf(key)}

\* C1: for each cached resource, as long as clearCache() was not called and
\* no request for it failed, all calls together cause exactly one network
\* request (once anybody subscribed) and every subscriber that has been
\* answered was handed the same result
C1_CacheSharing ==
  ~cacheCleared =>
    \A key \in CachedKeys :
      (\A i \in StreamsOf(key) : productService.streams[i].failures = 0) =>
        /\ SumRequests(StreamsOf(key)) <= 1
        /\ (WaitingOn(key) # {} \/ DeliveredOf(key) # {}) =>
             SumRequests(StreamsOf(key)) = 1
        /\ Cardinality(DeliveredOf(key)) <= 1

\* two callers of getProducts() have both been answered, by one request
C1_Witness ==
  /\ ~cacheCleared
  /\ productService.productsCache # NoStream
  /\ productService.streams[productService.productsCache].requests = 1
  /\ Len(productService.streams[productService.productsCache].delivered) >= 2
  /\ productService.streams[productService.productsCache].failures = 0

\* C7: in every state the service reaches, for every explicit limit value,
\* a call getProducts(limit) builds a fresh stream (so a fresh request), does
\* not return the cached unlimited stream and does not store its stream as
\* the unlimited cache
C7_ExplicitLimitBypassesCache ==
  \A limit \in Limits \ {Undefined} :
    LET r == getProducts(productService, limit)
    IN /\ r.ret.stream = Len(productService.streams) + 1
       /\ r.ret.stream # productService.productsCache
       /\ r.svc.productsCache = productService.productsCache
       /\ r.svc.productsCache # r.ret.stream

\* ------------------------------------------------------------------------
\* Properties of ProductsPageComponent.products$
\* ------------------------------------------------------------------------
\* the request the catalog is asked for filters, and the refined answer
SourceUrl(filters) ==
  IF filters.category # Undefined /\ filters.category[1] # ""
  THEN [path |-> "category", category |-> filters.category[1]]
  ELSE [path |-> "products", limit |-> Undefined]

RefinedLists(filters) ==
  {applyClientSideFilters(ServerBody(SourceUrl(filters), version),
                          [filters EXCEPT !.category = Undefined])
     : version \in ServerVersions}

\* C2: every list products$ emits was fetched for the filters switchMap
\* received last, and is the refined answer to them; the answer to a
\* superseded fetch is never emitted
C2_SwitchLatest ==
  \A k \in 1..Len(log.emissions) :
    /\ log.emissions[k].criteria = log.emissions[k].latest
    /\ log.emissions[k].list \in RefinedLists(log.emissions[k].latest)

\* products$ emits while a fetch for other filters was superseded unanswered
C2_Witness ==
  /\ log.emissions # <<>>
  /\ \E i \in 1..Len(log.superseded) : Some(log.superseded[i]) # page.accepted

\* C8: a debounced value is the last form value of its burst and causes
\* exactly one catalog fetch, made with that value
C8_OneFetchPerDebouncedValue ==
  (log.fired # Undefined /\ ~log.fired[1].suppressed) =>
    /\ log.fired[1].value = log.fired[1].formValue
    /\ Len(log.fetches) = 1
    /\ log.fetches[1] = toFilters(log.fired[1].value)

\* C9: a debounced value equal by value to the one accepted just before it
\* causes no fetch and no emission
C9_EqualValueSuppressed ==
  (/\ log.fired # Undefined
   /\ log.fired[1].previous # Undefined
   /\ log.fired[1].previous[1].value = log.fired[1].value) =>
    /\ log.fetches = <<>>
    /\ log.emissions = <<>>

\* a fetch made for filters has failed
FetchFailedFor(filters) == page.failed = Some(filters)

\* C10: once the criteria have stopped changing (no debounce pending), no
\* fetch is outstanding and no fetch for the criteria has failed, the list
\* products$ emitted last is the refined list for exactly those criteria
C10_ViewFollowsCriteria ==
  (/\ page.retries = 0
   /\ page.debouncePending = Undefined
   /\ waitingInner(productService) = {}
   /\ ~FetchFailedFor(toFilters(page.formValue))) =>
    /\ page.displayedFor = Some(toFilters(page.formValue))
    /\ page.displayed # Undefined
    /\ page.displayed[1] \in RefinedLists(toFilters(page.formValue))

\* ------------------------------------------------------------------------
\* Properties of ProductService: requests, loading and error
\* ------------------------------------------------------------------------
\* the requests of the streams of a cached resource that await a response
Outstanding(key) ==
  {i \in StreamsOf(key) : productService.streams[i].conn = "inflight"}

\* C11: at every moment at most one network request is outstanding for the
\* all-products cache key and at most one for the categories cache key
C11_OneOutstandingPerKey ==
  \A key \in CachedKeys : Cardinality(Outstanding(key)) <= 1

\* subscribing to the observable a call returned sends a request
startsRequest(r) ==
  \/ r.ret.stream = NoStream
  \/ r.svc.streams[r.ret.stream].conn = "none"

\* C12: in every state the service reaches, a call of a fetch operation
\* whose observable sends a network request when subscribed to has set the
\* shared loading state to LOADING
C12_LoadingSetAtRequestStart ==
  /\ \A limit \in Limits :
       LET r == getProducts(productService, limit)
       IN startsRequest(r) => r.svc.loadingSubject = "loading"
  /\ LET r == getCategories(productService)
     IN startsRequest(r) => r.svc.loadingSubject = "loading"
  /\ \A id \in ProductIds :
       LET r == getProductById(productService, id)
       IN startsRequest(r) => r.svc.loadingSubject = "loading"
  /\ \A category \in Categories :
       LET r == getProductsByCategory(productService, category)
       IN startsRequest(r) => r.svc.loadingSubject = "loading"

\* the step is the arrival of outcome for the request of a shared stream:
\* the request was in flight before the step and is not after it
sharedResponse(stream, outcome) ==
  /\ productService.streams[stream].conn = "inflight"
  /\ productService'.streams[stream].conn # "inflight"
  /\ httpResponseShared(stream, outcome)

\* the step is the arrival of outcome for the request of one subscriber of a
\* cold observable, who stops waiting
unsharedResponse(sub, outcome) ==
  /\ Len(productService'.subscribers) < Len(productService.subscribers)
  /\ httpResponseUnshared(sub, outcome)

\* the subscribers that wait on a shared stream
waitingOnStream(stream) ==
  {j \in 1..Len(productService.subscribers) :
     productService.subscribers[j].observable.stream = stream}

\* what a response r = [svc, answers] with the given outcome must have done
\* for the n subscribers it answers
settled(r, outcome, n) ==
  /\ Len(r.answers) = n
  /\ IF outcome.ok
     THEN /\ productService'.loadingSubject = "success"
          /\ productService'.errorSubject = Undefined
          /\ \A i \in 1..Len(r.answers) : r.answers[i].ok
     ELSE /\ productService'.loadingSubject = "error"
          /\ productService'.errorSubject = Some(handleError(outcome.error))
          /\ \A i \in 1..Len(r.answers) :
               /\ ~r.answers[i].ok
               /\ r.answers[i].result = handleError(outcome.error)

\* C13: a successful response sets loading to SUCCESS and error to null; a
\* failed one sets loading to ERROR, error to the classified ApiError, and
\* hands that same ApiError as an error to every waiting subscriber
C13_ResponseSetsLoadingAndError ==
  [][ /\ \A stream \in 1..Len(productService.streams), outcome \in HttpOutcomes :
           sharedResponse(stream, outcome) =>
             settled(respondShared(productService, stream, outcome), outcome,
                     Cardinality(waitingOnStream(stream)))
      /\ \A sub \in 1..Len(productService.subscribers), outcome \in HttpOutcomes :
           unsharedResponse(sub, outcome) =>
             settled(respondUnshared(productService, sub, outcome), outcome, 1) ]_vars

\* a request two callers were waiting on has failed
C13_Witness ==
  /\ productService.loadingSubject = "error"
  /\ productService.errorSubject # Undefined
  /\ productService.errorSubject[1].status = Some(0)
  /\ productService.subscriptions >= 2
  /\ productService.subscribers = <<>>
  /\ \E i \in 1..Len(productService.streams) :
       /\ productService.streams[i].failures = 1
       /\ productService.streams[i].requests = 1
       /\ Len(productService.streams) = 1
       /\ productService.cold = {}

\* C14: a failed request is not kept by a shared stream: after each failure
\* the stream has no connection, so the next subscriber sends a new request;
\* a stream that replays a value, or awaits a response, has sent one request
\* more than have failed, and no subscriber waits without a request
C14_FailureNotCached ==
  \A i \in 1..Len(productService.streams) :
    LET st == productService.streams[i]
    IN /\ st.conn = "none" => st.requests = st.failures
       /\ st.conn \in {"inflight", "complete"} => st.requests = st.failures + 1
       /\ waitingOnStream(i) # {} => st.conn = "inflight"

\* the cached all-products stream failed once; a later subscriber of it,
\* without clearCache(), caused a second request, which succeeded
C14_Witness ==
  /\ ~cacheCleared
  /\ productService.productsCache # NoStream
  /\ productService.streams[productService.productsCache].failures = 1
  /\ productService.streams[productService.productsCache].requests = 2
  /\ productService.streams[productService.productsCache].conn = "complete"
  /\ productService.streams[productService.productsCache].delivered # <<>>

\* stream is one the service had not built before, and nothing was requested
\* on it yet: its first subscriber sends a new network request
freshStream(stream) ==
  /\ stream = Len(productService.streams) + 1
  /\ Len(productService'.streams) = stream
  /\ productService'.streams[stream].conn = "none"
  /\ productService'.streams[stream].requests = 0

\* C15: clearCache() empties both caches, and the next getProducts() and the
\* next getCategories() after it return a new stream, whose subscription
\* sends a new request, instead of a stream cached before
C15_ClearCacheForcesRefetch ==
  [][ /\ clearCache =>
           /\ productService'.productsCache = NoStream
           /\ productService'.categoriesCache = NoStream
      /\ (/\ cacheCleared
          /\ productService.productsCache = NoStream
          /\ callGetProducts(Undefined)) =>
           /\ freshStream(productService'.productsCache)
           /\ getProducts(productService, Undefined).ret.stream
                = productService'.productsCache
      /\ (/\ cacheCleared
          /\ productService.categoriesCache = NoStream
          /\ callGetCategories) =>
           freshStream(productService'.categoriesCache) ]_vars

\* the all-products stream was cached and answered, clearCache() was called,
\* and the getProducts() after it has sent a request of its own
C15_Witness ==
  /\ cacheCleared
  /\ productService.productsCache = 2
  /\ productService.streams[1].url = [path |-> "products", limit |-> Undefined]
  /\ productService.streams[1].conn = "complete"
  /\ productService.streams[2].url = [path |-> "products", limit |-> Undefined]
  /\ productService.streams[2].requests = 1

\* the streams the caches point to that hold a successful result
cachedResults(s) ==
  {i \in {s.productsCache, s.categoriesCache} \ {NoStream} :
     s.streams[i].conn = "complete"}

\* the step is the arrival of a failed response
failedResponse ==
  \E outcome \in {o \in HttpOutcomes : ~o.ok} :
    \/ \E stream \in 1..Len(productService.streams) :
         httpResponseShared(stream, outcome)
    \/ \E sub \in 1..Len(productService.subscribers) :
         httpResponseUnshared(sub, outcome)

\* C16: a failed response leaves every successfully cached result in place:
\* after it getProducts() and getCategories() return the same cached stream,
\* and a subscriber of it is handed the same result without a request
C16_FailureKeepsCachedData ==
  [][ failedResponse =>
        /\ cachedResults(productService') = cachedResults(productService)
        /\ \A i \in cachedResults(productService) :
             LET r == IF i = productService.productsCache
                      THEN getProducts(productService', Undefined)
                      ELSE getCategories(productService')
                 sub == subscribe(r.svc, r.ret, Undefined, Undefined)
             IN /\ r.ret.stream = i
                /\ ~startsRequest(r)
                /\ sub.value = productService.streams[i].buffer
                /\ sub.svc.streams[i].requests = productService.streams[i].requests ]_vars

\* the all-products result is cached, a fetch of another resource has
\* failed since, and a caller was served from the cache
C16_Witness ==
  /\ productService.productsCache # NoStream
  /\ productService.streams[productService.productsCache].conn = "complete"
  /\ productService.streams[productService.productsCache].failures = 0
  /\ productService.streams[productService.productsCache].delivered # <<>>
  /\ productService.loadingSubject = "error"
  /\ productService.errorSubject # Undefined

\* the logical resources fetches have been started for, by URL path:
\* "products", "categories", "product" (single product), "category"
fetched(s) ==
  {s.streams[i].url.path : i \in 1..Len(s.streams)} \cup {url.path : url \in s.cold}

\* the step starts or completes a fetch of the resource
stepOn(resource) ==
  \/ resource = "products" /\ \E limit \in Limits : callGetProducts(limit)
  \/ resource = "categories" /\ callGetCategories
  \/ resource = "product" /\ \E id \in {2} : callGetProductById(id)
  \/ \E stream \in 1..Len(productService.streams), outcome \in HttpOutcomes :
       /\ productService.streams[stream].url.path = resource
       /\ httpResponseShared(stream, outcome)
  \/ \E sub \in 1..Len(productService.subscribers), outcome \in HttpOutcomes :
       /\ productService.subscribers[sub].observable.url.path = resource
       /\ httpResponseUnshared(sub, outcome)

\* C17: starting or completing a fetch of one resource leaves the loading
\* state observed for every other resource in use (loading$, the only loading
\* state the service publishes) unchanged
C17_LoadingStatePerStream ==
  [][ \A resource \in {"products", "categories", "product", "category"} :
        (stepOn(resource) /\ fetched(productService) \ {resource} # {}) =>
          productService'.loadingSubject = productService.loadingSubject ]_vars

\* C17 as the service implements it: there is one LoadingState, shared by
\* all resources; every call that builds a request pipeline sets it to
\* LOADING and every response sets it to SUCCESS or ERROR, whichever resource
\* the call or the response belongs to
C17_SharedLoadingState ==
  [][ /\ Len(productService'.streams) > Len(productService.streams) =>
           /\ \A limit \in Limits :
                callGetProducts(limit) => productService'.loadingSubject = "loading"
           /\ callGetCategories => productService'.loadingSubject = "loading"
      /\ \A id \in {2} :
           callGetProductById(id) => productService'.loadingSubject = "loading"
      /\ \A stream \in 1..Len(productService.streams), outcome \in HttpOutcomes :
           sharedResponse(stream, outcome) =>
             productService'.loadingSubject = IF outcome.ok THEN "success" ELSE "error"
      /\ \A sub \in 1..Len(productService.subscribers), outcome \in HttpOutcomes :
           unsharedResponse(sub, outcome) =>
             productService'.loadingSubject = IF outcome.ok THEN "success" ELSE "error" ]_vars

\* the shared state says SUCCESS, set by a response for one resource, while
\* the request of another resource is still outstanding
C17_Witness ==
  /\ productService.loadingSubject = "success"
  /\ \E i, j \in 1..Len(productService.streams) :
       /\ productService.streams[i].url.path # productService.streams[j].url.path
       /\ productService.streams[i].conn = "complete"
       /\ productService.streams[j].conn = "inflight"

\* the requests s has sent that are known from its state: those of its shared
\* streams, and those its cold subscribers wait on
RECURSIVE sharedRequests(_, _)
sharedRequests(s, i) ==
  IF i > Len(s.streams) THEN 0
  ELSE s.streams[i].requests + sharedRequests(s, i + 1)

coldWaiting(s) ==
  Len(SelectSeq(s.subscribers, LAMBDA waiter : waiter.observable.stream = NoStream))

\* the step sends a network request
sendsRequest ==
  \/ sharedRequests(productService', 1) > sharedRequests(productService, 1)
  \/ coldWaiting(productService') > coldWaiting(productService)

\* C18: a network request is sent only by a step in which a caller
\* subscribes, one request per subscription at most: no response, failed or
\* not, and no call sends one; the requests never outnumber the subscriptions
C18_NoAutomaticRetry ==
  [][ /\ sendsRequest =>
           /\ productService'.subscriptions = productService.subscriptions + 1
           /\ sharedRequests(productService', 1) + coldWaiting(productService')
                = sharedRequests(productService, 1) + coldWaiting(productService) + 1
      /\ sharedRequests(productService', 1) + coldWaiting(productService')
           <= productService'.subscriptions ]_vars

\* a request failed, nobody has subscribed since, and although a caller has
\* called a fetch operation again no request is outstanding
C18_Witness ==
  /\ productService.loadingSubject = "loading"
  /\ productService.errorSubject # Undefined
  /\ productService.subscribers = <<>>
  /\ productService.subscriptions = 1
  /\ \E i \in 1..Len(productService.streams) :
       /\ productService.streams[i].failures = 1
       /\ productService.streams[i].requests = 1
       /\ productService.streams[i].conn = "none"

\* ------------------------------------------------------------------------
\* Properties of ProductsPageComponent.retryLoad
\* ------------------------------------------------------------------------
\* C19: retryLoad() after a failed product fetch issues a new fetch, whose
\* inner subscriber then waits for the list products$ is to emit
C19_RetryRefetches ==
  [][ (retryLoad /\ page.failed # Undefined) =>
        /\ log'.fetches # <<>>
        /\ waitingInner(productService') # {} ]_vars

\* ------------------------------------------------------------------------
\* Properties of ProductService.handleError
\* ------------------------------------------------------------------------
\* the request got no response: the failure is one of connectivity
connectivityFailure(error) == error.errorEvent \/ error.status = 0

\* the ApiError the classification rules give for error
classified(error, apiError) ==
  IF connectivityFailure(error) THEN apiError.code = "NETWORK_ERROR"
  ELSE IF error.status = 404
       THEN apiError.code = "NOT_FOUND" /\ apiError.message = "Product not found."
  ELSE IF error.status = 500 THEN apiError.code = "SERVER_ERROR"
  ELSE /\ apiError.code = "UNKNOWN_ERROR"
       /\ truthyString(error.message) => apiError.message = error.message[1]

\* C20: the ApiError published for a failed request is NETWORK_ERROR for a
\* connectivity failure, NOT_FOUND with 'Product not found.' for HTTP 404,
\* SERVER_ERROR for HTTP 500, and otherwise UNKNOWN_ERROR with the server's
\* message when there is one
C20_ErrorClassification ==
  [][ \A error \in HttpErrors :
        (\/ \E sub \in 1..Len(productService.subscribers) :
              httpResponseUnshared(sub, [ok |-> FALSE, error |-> error])
         \/ \E stream \in 1..Len(productService.streams) :
              httpResponseShared(stream, [ok |-> FALSE, error |-> error])) =>
          /\ productService'.errorSubject # Undefined
          /\ classified(error, productService'.errorSubject[1]) ]_vars

\* the step is the arrival of a failed response carrying error
failsWith(error) ==
  \/ \E sub \in 1..Len(productService.subscribers) :
       httpResponseUnshared(sub, [ok |-> FALSE, error |-> error])
  \/ \E stream \in 1..Len(productService.streams) :
       httpResponseShared(stream, [ok |-> FALSE, error |-> error])

\* the backend failures whose HTTP status is in the 5xx class
ServerFailures == {error \in HttpErrors : ~error.errorEvent /\ error.status \in 500..599}

\* C21: the ApiError published for every backend failure with an HTTP status
\* in 500..599 has the code SERVER_ERROR
C21_ServerErrorClass ==
  [][ \A error \in ServerFailures :
        failsWith(error) =>
          /\ productService'.errorSubject # Undefined
          /\ productService'.errorSubject[1].code = "SERVER_ERROR" ]_vars

\* ------------------------------------------------------------------------
\* Properties of ProductService.getFilteredProducts
\* ------------------------------------------------------------------------
\* the stream getFilteredProducts(filters) hands its map() is the one source
\* returns, and the service is left as the call source leaves it
sourceIs(filters, source) ==
  LET r == getFilteredProducts(productService, filters)
  IN r.svc = source.svc /\ r.ret = source.ret

containsIgnoringCase(str, search) ==
  \E k \in 0..(Len(str) - Len(search)) :
    \A i \in 1..Len(search) :
      toLowerCaseChar(str[k + i]) = toLowerCaseChar(search[i])

\* product is one the criteria ask for
matches(product, filters) ==
  /\ filters.searchTerm # Undefined =>
       \/ containsIgnoringCase(product.title, filters.searchTerm[1])
       \/ containsIgnoringCase(product.description, filters.searchTerm[1])
  /\ filters.minPrice # Undefined => product.price >= filters.minPrice[1]
  /\ filters.maxPrice # Undefined => product.price <= filters.maxPrice[1]

\* how often product occurs in list
occurrences(list, product) ==
  Cardinality({i \in 1..Len(list) : list[i] = product})

matching(products, filters) ==
  SelectSeq(products, LAMBDA product : matches(product, filters))

\* the key sortBy orders by comes earlier for a than for b: price as a
\* number, title without regard to case, rating.rate with 0 for no rating
keyLess(a, b, sortBy) ==
  LET rate(p) == IF p.rating = Undefined THEN 0 ELSE p.rating[1]
  IN CASE sortBy = "price" -> a.price < b.price
       [] sortBy = "title" -> stringLess(toLowerCase(a.title), toLowerCase(b.title))
       [] sortBy = "rating" -> rate(a) < rate(b)

sameKey(a, b, sortBy) == ~keyLess(a, b, sortBy) /\ ~keyLess(b, a, sortBy)

\* C24: when sortBy is set, the refined list is ordered by the chosen key in
\* the sortOrder direction (asc when none is given), and for every key the
\* products with that key are those of the filtered list, in the same
\* relative order: the refined list is a stable permutation of the filtered one
C24_StableSortByKey ==
  (refinement.filtered # Undefined /\ refinement.filters.sortBy # Undefined) =>
    LET sortBy == refinement.filters.sortBy[1]
        desc == refinement.filters.sortOrder = Some("desc")
        before == matching(refinement.products, refinement.filters)
        after == refinement.filtered[1]
    IN /\ Len(after) = Len(before)
       /\ \A i, j \in 1..Len(after) :
            i < j => IF desc THEN ~keyLess(after[i], after[j], sortBy)
                     ELSE ~keyLess(after[j], after[i], sortBy)
       /\ \A product \in ProductPool :
            SelectSeq(after, LAMBDA other : sameKey(other, product, sortBy))
              = SelectSeq(before, LAMBDA other : sameKey(other, product, sortBy))

\* three products were sorted by title, descending: the two whose titles
\* differ only by case came last and kept their input order, which is not
\* the order of their ids
C24_Witness ==
  /\ refinement.filtered # Undefined
  /\ refinement.filters.sortBy = Some("title")
  /\ refinement.filters.sortOrder = Some("desc")
  /\ Len(refinement.products) = 3
  /\ refinement.products[1].id = 3
  /\ refinement.products[2].id = 2
  /\ refinement.products[3].id = 1
  /\ Len(refinement.filtered[1]) = 3
  /\ refinement.filtered[1][1].id = 2
  /\ refinement.filtered[1][2].id = 3
  /\ refinement.filtered[1][3].id = 1

\* ------------------------------------------------------------------------
\* Properties of the CartService operations
\* ------------------------------------------------------------------------
\* the positions of the items held for productId
itemsFor(items, productId) ==
  {i \in 1..Len(items) : items[i].id = productId}

\* C25: in every cart state, addToCart(product, q) on a cart that holds an
\* item for product.id adds q to that item's quantity and sets its lineTotal
\* to the new quantity times the price of the product passed, leaving the
\* other items as they are; on a cart without it, it appends one item with
\* quantity q and lineTotal = price * q; the number of items grows by at
\* most one
C25_AddToCartMerges ==
  \A product \in CartProducts, quantity \in QtyArgs :
    LET updatedItems == addToCartItems(cartItems, product, quantity)
    IN /\ Len(updatedItems) <= Len(cartItems) + 1
       /\ IF itemsFor(cartItems, product.id) # {}
          THEN /\ Len(updatedItems) = Len(cartItems)
               /\ \A i \in 1..Len(cartItems) :
                    IF i \in itemsFor(cartItems, product.id)
                    THEN /\ updatedItems[i].id = product.id
                         /\ updatedItems[i].quantity = cartItems[i].quantity + quantity
                         /\ updatedItems[i].lineTotal
                              = product.price * (cartItems[i].quantity + quantity)
                    ELSE updatedItems[i] = cartItems[i]
          ELSE updatedItems = Append(cartItems,
                                     [id |-> product.id, product |-> product,
                                      quantity |-> quantity,
                                      lineTotal |-> product.price * quantity])

\* an item holds more than one call can add, next to another item: a later
\* addToCart of its product was merged into it
C25_Witness ==
  /\ Len(cartItems) = 2
  /\ cartItems[1].quantity > MaxQtyArg
  /\ cartItems[1].lineTotal = cartItems[1].product.price * cartItems[1].quantity
  /\ cartItems[2].id # cartItems[1].id

\* the sum of the quantities of the items at the given positions
RECURSIVE quantityOfItems(_, _)
quantityOfItems(items, positions) ==
  IF positions = {} THEN 0
  ELSE LET i == CHOOSE x \in positions : TRUE
       IN items[i].quantity + quantityOfItems(items, positions \ {i})

\* C26: updateQuantity(productId, q) with q <= 0 is a removeFromCart(productId)
\* step, after which summary().itemCount is lower by the quantity of the item
\* removed; with q > 0 it gives the item for productId, if there is one, the
\* quantity q and lineTotal = price * q; every other item, and the whole
\* collection when there is no item for productId, stays as it is
C26_UpdateQuantity ==
  [][ \A productId \in ProductIds, quantity \in QtyArgs :
        updateQuantity(productId, quantity) =>
          IF quantity <= 0
          THEN /\ removeFromCart(productId)
               /\ summaryValue'.itemCount
                    = summaryValue.itemCount
                        - quantityOfItems(cartItems, itemsFor(cartItems, productId))
          ELSE /\ Len(cartItems') = Len(cartItems)
               /\ \A i \in 1..Len(cartItems) :
                    IF i \in itemsFor(cartItems, productId)
                    THEN cartItems'[i] =
                           [cartItems[i] EXCEPT
                              !.quantity = quantity,
                              !.lineTotal = cartItems[i].product.price * quantity]
                    ELSE cartItems'[i] = cartItems[i] ]_vars

\* the second of two items was given a smaller quantity than the first has:
\* its lineTotal is that of the smaller quantity, the first item is as before
C26_Witness ==
  /\ Len(cartItems) = 2
  /\ cartItems[1].quantity = MaxQty
  /\ cartItems[2].quantity = 1
  /\ cartItems[2].lineTotal = cartItems[2].product.price
  /\ cartItems[2].product.price = MaxPrice
  /\ summaryMemo = <<>>

\* items without those at the given positions: each item kept stands as
\* many places earlier as there were items dropped before it
isWithout(result, items, dropped) ==
  /\ Len(result) = Len(items) - Cardinality(dropped)
  /\ \A i \in (1..Len(items)) \ dropped :
       result[i - Cardinality({j \in dropped : j < i})] = items[i]

\* isInCart and getProductQuantity answer for productId what items holds
queriesAgree(items, productId) ==
  /\ isInCart(productId)' <=> itemsFor(items, productId) # {}
  /\ getProductQuantity(productId)' = quantityOfItems(items, itemsFor(items, productId))

\* C27: removeFromCart(productId) takes the item with that id out of the
\* collection and leaves every other item, and their order, as it is (all of
\* them when there is no such item); clearCart() leaves the collection empty;
\* after either, isInCart and getProductQuantity (0 for an absent product)
\* answer what the resulting collection holds
C27_RemoveAndClear ==
  [][ /\ \A productId \in ProductIds :
           removeFromCart(productId) =>
             /\ isWithout(cartItems', cartItems, itemsFor(cartItems, productId))
             /\ itemsFor(cartItems, productId) = {} => cartItems' = cartItems
             /\ ~isInCart(productId)'
             /\ getProductQuantity(productId)' = 0
             /\ \A other \in ProductIds : queriesAgree(cartItems', other)
      /\ clearCart =>
           /\ cartItems' = <<>>
           /\ \A other \in ProductIds :
                ~isInCart(other)' /\ getProductQuantity(other)' = 0 ]_vars

\* the first of two items was removed: the item of product 2 is the only
\* one left, in memory and in storage
C27_Witness ==
  /\ Len(cartItems) = 1
  /\ cartItems[1].id = 2
  /\ cartItems[1].quantity = MaxQty
  /\ cartStorage = <<JSONstringify(cartItems)>>
  /\ summaryMemo = <<>>
  /\ isInCart(2) /\ ~isInCart(1)
  /\ getProductQuantity(2) = MaxQty /\ getProductQuantity(1) = 0

\* C28: with working storage, in every state between two operations the
\* blob stored under 'binfawzi_cart' is the serialization of the current
\* item collection (no blob: nothing was ever saved, the collection is empty)
C28_StorageAgreesWithMemory ==
  ~storageThrows =>
    IF cartStorage = NoBlob
    THEN cartItems = <<>>
    ELSE cartStorage[1] = JSONstringify(cartItems)

\* ------------------------------------------------------------------------
\* C29, C30: the cart and what the storage holds at construction
\* ------------------------------------------------------------------------
\* the key holds the JSON of an array of items with a price and a quantity
holdsItems(stored) == stored # NoBlob /\ stored[1].json = "array"

\* C29: a CartService constructed over a readable storage that holds a
\* persisted cart loads one item per stored item, in the stored order, with
\* the stored id, product and quantity, and with the lineTotal
\* product.price * quantity of the stored product and quantity, whatever
\* lineTotal is stored
C29_LoadRecomputesLineTotal ==
  (~storageThrows /\ holdsItems(cartStorage)) =>
    LET stored == cartStorage[1].items
        loaded == loadCartFromStorage
    IN /\ Len(loaded) = Len(stored)
       /\ \A i \in 1..Len(stored) :
            /\ loaded[i].id = stored[i][1]
            /\ loaded[i].product = [id |-> stored[i][2][1], price |-> stored[i][2][2]]
            /\ loaded[i].quantity = stored[i][3]
            /\ loaded[i].lineTotal = stored[i][2][2] * stored[i][3]

\* the service was constructed over two stored items whose lineTotal is
\* not price * quantity, one too small and one too large, and holds both
\* with the recomputed value
C29_Witness ==
  /\ ~storageThrows
  /\ holdsItems(cartStorage)
  /\ cartStorage[1].items = << <<1, <<1, 2>>, 1, 1>>, <<2, <<2, 1>>, 2, 4>> >>
  /\ Len(cartItems) = 2
  /\ cartItems[1].lineTotal = 2
  /\ cartItems[2].lineTotal = 2
  /\ summaryMemo = <<>>

\* the key holds a text that is not the JSON of a persisted cart
corruptBlob(stored) == stored # NoBlob /\ stored[1].json # "array"

\* the collection a mutating call is to leave, for each call the step can be
isMutationOf(items) ==
  /\ \A product \in CartProducts, quantity \in QtyArgs :
       addToCart(product, quantity) =>
         cartItems' = addToCartItems(items, product, quantity)
  /\ \A productId \in ProductIds, quantity \in QtyArgs :
       updateQuantity(productId, quantity) =>
         cartItems' = IF quantity <= 0
                      THEN filterOut(items, productId)
                      ELSE updateQuantityItems(items, productId, quantity)
  /\ \A productId \in ProductIds :
       removeFromCart(productId) => cartItems' = filterOut(items, productId)
  /\ clearCart => cartItems' = <<>>

\* C30: no exception leaves a CartService call; a CartService constructed
\* over a storage whose access throws, or over a corrupt blob, starts with an
\* empty cart; a mutating call whose write throws leaves the mutated
\* collection in memory, a summary computed from it, and the storage as it was
C30_StorageFailureNonFatal ==
  /\ [](~uncaught)
  /\ []((storageThrows \/ corruptBlob(cartStorage)) => loadCartFromStorage = <<>>)
  /\ [][ (storageThrows /\ cartItems' # cartItems) =>
           /\ isMutationOf(cartItems)
           /\ summaryValue' = summary(cartItems')
           /\ cartStorage' = cartStorage ]_vars

\* ------------------------------------------------------------------------
\* C31 .. C33, C38: the session
\* ------------------------------------------------------------------------
\* the interceptor passes every request on as it was handed it
attachesNothing(a) ==
  \A request \in Requests : intercept(a, request).handled = request

C32_PersistentOnlyByOptIn ==
  \A token \in Tokens, persistent \in BOOLEAN :
    LET a == setToken(auth, token, persistent)
    IN /\ a.localToken = Some(token) <=> persistent
       /\ ~persistent => a.localToken = Undefined
       /\ getToken(a).ret = Some(token)

\* C32: where the localStorage can be accessed, after setToken(token,
\* persistent) its entry is the token when persistent is true and absent
\* when it is false; where its access throws, the entry is as it was; in all
\* cases the memory holds the token and getToken() returns it
C32_PersistentOnlyByOptInWhereAccessible ==
  \A token \in Tokens, persistent \in BOOLEAN :
    LET a == setToken(auth, token, persistent)
    IN /\ a.localToken = IF storageThrows THEN auth.localToken
                         ELSE IF persistent THEN Some(token) ELSE Undefined
       /\ a.memoryStorage = Some(token)
       /\ getToken(a).ret = Some(token)
       /\ getToken(a).auth = a

\* a login without rememberMe was answered with t2 while t1 was logged in:
\* the memory holds t2 and the localStorage holds no token
C32_Witness ==
  /\ ~storageThrows
  /\ auth.memoryStorage = Some("t2")
  /\ auth.localToken = Undefined
  /\ auth.currentUser = Some([username |-> "u", token |-> "t2"])
  /\ Len(auth.inflight) = 1
  /\ auth.inflight[1].rememberMe

\* the interceptor has given the request an Authorization header it had not
addsHeader(request, handled) ==
  request.authorization = Undefined /\ handled.authorization # Undefined

\* C33: the request the interceptor passes on has got an Authorization
\* header iff the interceptor is enabled, getAuthToken() gives a token and
\* the request had no such header; the header is then Bearer <token> and
\* nothing else of the request is changed; in every other case, so whenever
\* the request had an Authorization header, the request is passed on as it was
C33_InterceptorAddsBearer ==
  \A request \in Requests :
    LET token == getToken(auth).ret
        handled == intercept(auth, request).handled
    IN /\ addsHeader(request, handled) <=>
            (auth.isEnabled /\ token # Undefined /\ request.authorization = Undefined)
       /\ addsHeader(request, handled) =>
            handled = [request EXCEPT !.authorization = Some(Bearer(token[1]))]
       /\ ~addsHeader(request, handled) => handled = request

\* a request without a header was sent while t1 was the token: it was
\* passed on with Bearer t1, which no caller sets
C33_Witness ==
  /\ auth.isEnabled
  /\ auth.memoryStorage = Some("t1")
  /\ auth.handled = Some([url |-> "products", authorization |-> Some(Bearer("t1"))])
  /\ auth.currentUser = Some([username |-> "u", token |-> "t1"])

\* C38: there is a current user iff getToken() gives a token, and the
\* token of the current user is the token getToken() gives
C38_SessionConsistency ==
  LET token == getToken(auth).ret
  IN /\ isLoggedIn(auth) <=> token # Undefined
     /\ isLoggedIn(auth) => auth.currentUser[1].token = token[1]

\* a login with rememberMe was answered with t2 while another login waits
\* and after the interceptor had attached t1: the user and the token in
\* both storages are those of the response
C38_Witness ==
  /\ ~storageThrows
  /\ auth.currentUser = Some([username |-> "u", token |-> "t2"])
  /\ auth.memoryStorage = Some("t2")
  /\ auth.localToken = Some("t2")
  /\ auth.handled = Some([url |-> "auth/login", authorization |-> Some(Bearer("t1"))])
  /\ Len(auth.inflight) = 1

\* ------------------------------------------------------------------------
\* C34: what a new CartService loads
\* ------------------------------------------------------------------------
\* C34: with a working storage, the collection a CartService constructed
\* now would load is the collection in memory, item by item with the same
\* id, quantity and lineTotal, and its summary is the summary read now
C34_PersistenceRoundTrip ==
  ~storageThrows =>
    LET loaded == loadCartFromStorage
    IN /\ Len(loaded) = Len(cartItems)
       /\ \A i \in 1..Len(cartItems) :
            /\ loaded[i].id = cartItems[i].id
            /\ loaded[i].quantity = cartItems[i].quantity
            /\ loaded[i].lineTotal = cartItems[i].lineTotal
       /\ summary(loaded) = summaryValue

\* ------------------------------------------------------------------------
\* C35: the cached list under client-side refinement
\* ------------------------------------------------------------------------
\* C35: the list the cached stream of getProducts() replays is a response
\* of the server to its request, element by element in the order of the
\* response, whatever getFilteredProducts and searchProducts calls have
\* filtered and sorted what the stream emitted
C35_CachedListNotMutated ==
  LET stream == productService.productsCache
  IN (stream # NoStream /\ productService.streams[stream].conn = "complete") =>
       \E version \in ServerVersions :
         productService.streams[stream].buffer =
           Some(ServerBody(productService.streams[stream].url, version))

\* two sorting callers have been served from one response of the cached
\* stream, one when it arrived and one by replay: the stream still holds the
\* first catalog in the order of the server
C35_Witness ==
  LET stream == productService.productsCache
  IN /\ stream # NoStream
     /\ productService.streams[stream].conn = "complete"
     /\ productService.streams[stream].requests = 1
     /\ productService.streams[stream].buffer = Some(ServerCatalog(1))
     /\ productService.subscriptions = 2
     /\ productService.subscribers = <<>>
     /\ Len(productService.streams) = 1

\* ------------------------------------------------------------------------
\* C39: notifications and their timers
\* ------------------------------------------------------------------------
\* the notifications other than the one with the id, in their order
others(list, id) == SelectSeq(list, LAMBDA shownOne : shownOne.id # id)

\* C39: a notification that is shown while its timer is armed is removed
\* from the list at some time; when a timer fires, the notification with
\* its id is removed and every other notification stays, in order; when the
\* notification was removed before, by removeNotification or clearAll, the
\* list stays as it is
C39_TimersRemoveOnlyTheirOwn ==
  /\ \A id \in NotificationIds :
       (id \in shown(notifications) /\ id \in notifications.timers)
         ~> (id \notin shown(notifications))
  /\ [][ \A id \in NotificationIds :
           timerFires(id) =>
             /\ notifications'.list = others(notifications.list, id)
             /\ id \notin shown(notifications) =>
                  notifications'.list = notifications.list ]_vars

\* the first of three notifications is gone and its timer has fired: the
\* two others are shown in their order, their timers armed
C39_Witness ==
  /\ Len(notifications.list) = 2
  /\ notifications.list[1].id = 2
  /\ notifications.list[2].id = 3
  /\ notifications.timers = {2, 3}

\* ------------------------------------------------------------------------
\* C36: the product details page under route changes
\* ------------------------------------------------------------------------
\* C36: when no getProductById request of the page is in flight and the
\* last response was a product, the product shown, which is the product
\* addToCart passes to the cart, is the one of the id the route has now
C36_ShowsLatestRoute ==
  ( /\ details.alive
    /\ productService.subscribers = <<>>
    /\ details.loading = "success"
    /\ details.product # Undefined
    /\ details.routeId # Undefined /\ details.routeId[1] # 0 )
  => details.product[1].id = details.routeId[1]

\* ------------------------------------------------------------------------
\* C37: quantities under the operations of the pages
\* ------------------------------------------------------------------------
\* C37: the quantity of every cart item is at least 1 and at most 99
C37_QuantityWithinRange ==
  \A i \in 1..Len(cartItems) :
    cartItems[i].quantity >= 1 /\ cartItems[i].quantity <= 99

====
